---- MODULE Spec2Model ----
(***************************************************************************)
(* A model of the SuiFlashBotTemplate demo bot.                            *)
(*                                                                         *)
(*   Spec       the ArbitrageOrchestrator poll loop over the MockDatabase  *)
(*              (src/src/orchestrator/ArbitrageOrchestrator.ts,            *)
(*               src/unnamed/part_003 = database/MockDatabase.ts)          *)
(*   SpecRetry  SuiLendExecutor.withRetry (src/unnamed/part_002 =          *)
(*              executor/SuiLendExecutor.ts)                               *)
(*   SpecToken  token resolution: SevenKSwapExecutor.getProperTokenAddress *)
(*              (src/src/executor/SevenKSwapExecutor.ts) over              *)
(*              getTokenAddress, validateTokenFormat and fixTokenFormat    *)
(*              (src/src/config/sevenk.ts)                                 *)
(*   SpecQuote  SevenKSwapExecutor.getFallbackQuote                        *)
(*              (src/src/executor/SevenKSwapExecutor.ts)                   *)
(*   SpecSwap   one call of an operation of SevenKSwapExecutor             *)
(*              on a new executor; SpecSwapFair adds that the program's    *)
(*              own steps and its timer are not delayed for ever           *)
(*   SpecFlash  one call of executeNaviFlashloan or executeSuilendFlashloan *)
(*   SpecPrice  calls of initialize, getPriceInfo and canTradePair on one   *)
(*              SuiLendExecutor (src/unnamed/part_002)                      *)
(*              (src/src/examples/simple*Flashloan.ts)                     *)
(*                                                                         *)
(* Each specification leaves the variables of the others at their initial  *)
(* values.                                                                 *)
(*                                                                         *)
(* Every await of the TypeScript code is a point where the event loop may  *)
(* run another callback; the code between two awaits is one atomic action. *)
(***************************************************************************)
EXTENDS Integers, Sequences, FiniteSets, TLC

VARIABLES
    \* ---- ArbitrageOrchestrator fields
    isRunning,              \* this.isRunning
    scanInterval,           \* this.scanInterval: Null or the id of a timer
    minProfitThresholdUsd,  \* this.minProfitThresholdUsd, in 1e-5 USD
    \* ---- the event loop around the orchestrator
    timers,                 \* setInterval timers armed and not cleared
    scans,                  \* every scanForOpportunities() execution started
    calls,                  \* the startScanning / stopScanning calls made, in order
    executions,             \* every executeArbitrage() invocation, in order
    swapCalls,              \* number of this.executor.executeSwap() invocations
    \* ---- MockDatabase
    mockStorage,            \* [tokenPairs, pools, arbitrageOpportunities]
    \* ---- SuiLendExecutor fields
    retryAttempts,          \* this.retryAttempts: an integer or NaN
    retryDelay,             \* this.retryDelay: an integer or NaN
    \* ---- one call of withRetry(operation)
    retryPc,                \* "idle", "operation", "delay", "returned", "thrown"
    attempt,                \* the loop variable
    lastError,              \* the local lastError: Null or an error
    retryResult,            \* what the call returned or threw
    waits,                  \* the delays given to setTimeout, in order
    \* ---- the operation given to withRetry
    opFailures,             \* it rejects that many times, then resolves; or Always
    opThrowsError,          \* what it rejects with is an instance of Error
    opCalls,                \* number of times it was invoked
    \* ---- SevenKSwapExecutor fields
    isMock,                 \* this.isMock
    \* ---- a token string resolved, and the result resolved again
    tokenEntry,             \* the function called
    tokenInput,             \* the string given to it
    tokenFirst,             \* resolve(tokenInput)
    tokenSecond,            \* resolve(tokenFirst)
    tokenValid,             \* validateTokenFormat(tokenInput)
    tokenPc,                \* "input", "validated", "resolved", "resolvedAgain"
    \* ---- one call of getFallbackQuote(params)
    quoteParams,            \* [tokenIn, tokenOut, amountIn, slippage]
    quote,                  \* the quote returned
    quotePc,                \* "called", "returned"
    \* ---- SevenKSwapExecutor fields set by initialize()
    client,                 \* this.client: "null" or "client"
    keypair,                \* this.keypair: "null" or "keypair"
    signerAddress,          \* this.signerAddress: "null" or "address"
    \* ---- one call of a method of SevenKSwapExecutor
    swapEntry,              \* the method called
    swapParams,             \* [inputToken, outputToken]; in findRoute, then testParams
    swapPc,                 \* "called", "testQuote", "initialized", "resolved", "awaitQuote",
                            \* "quoted", "awaitBuild", "awaitExecute", "returned",
                            \* "thrown"
    swapTokens,             \* the tokens after processing
    swapResponse,           \* what getQuote answered
    swapResult,             \* what the call returned or threw
    swapEvents,             \* the calls made to the outside, in order
    quoteTimer,             \* the 5 s timer: "none", "armed", "fired", "cleared"
    txStatus,               \* effects.status.status of the executed transaction
    \* ---- one call of executeNaviFlashloan() or executeSuilendFlashloan()
    flashEntry,             \* the function called
    flashEnv,               \* process.env and what the SDKs' synchronous calls do
    flashPc,                \* "called", "awaitInitialize", "awaitBuild",
                            \* "awaitSubmit", "settled"
    txb,                    \* the transaction block under construction
    builtTx,                \* the commands of the transaction built
    flashEvents,            \* the steps added and the calls made, in order
    flashAnswer,            \* what signAndExecuteTransactionBlock answered
    flashResult,            \* what the call returned or threw
    flashLog,               \* the logger.error calls, in order
    \* ---- SuiLendExecutor fields set by initialize(), and its environment
    privateKey,             \* process.env.PRIVATE_KEY, by what initialize() makes of it
    lendClient,             \* this.client: "null" or "client"
    lendKeypair,            \* this.keypair: "null" or "keypair"
    \* ---- calls of initialize, getPriceInfo and canTradePair, one after the other
    pricePc,                \* "idle", or "fallback" inside getFallbackPriceInfo
    priceCall,              \* the parameters of the getPriceInfo call in progress
    priceLog                \* how every call made has ended, in order

orchVars == <<isRunning, scanInterval, minProfitThresholdUsd, timers, scans,
              calls, executions, swapCalls, mockStorage>>

retryVars == <<retryAttempts, retryDelay, retryPc, attempt, lastError,
               retryResult, waits, opFailures, opThrowsError, opCalls>>

tokenVars == <<isMock, tokenEntry, tokenInput, tokenFirst, tokenSecond, tokenValid,
               tokenPc>>

quoteVars == <<quoteParams, quote, quotePc>>

swapVars == <<client, keypair, signerAddress, swapEntry, swapParams, swapPc,
              swapTokens, swapResponse, swapResult, swapEvents, quoteTimer, txStatus>>

flashVars == <<flashEntry, flashEnv, flashPc, txb, builtTx, flashEvents,
               flashAnswer, flashResult, flashLog>>

priceVars == <<privateKey, lendClient, lendKeypair, pricePc, priceCall, priceLog>>

vars == <<orchVars, retryVars, tokenVars, quoteVars, swapVars, flashVars, priceVars>>

\* what the actions of each specification leave alone
otherThanOrch == <<retryVars, tokenVars, quoteVars, swapVars, flashVars, priceVars>>
otherThanRetry == <<orchVars, tokenVars, quoteVars, swapVars, flashVars, priceVars>>
otherThanToken == <<orchVars, retryVars, quoteVars, swapVars, flashVars, priceVars>>
otherThanQuote == <<orchVars, retryVars, tokenVars, swapVars, flashVars, priceVars>>
otherThanSwap == <<orchVars, retryVars, tokenVars, quoteVars, flashVars, priceVars>>
otherThanFlash == <<orchVars, retryVars, tokenVars, quoteVars, swapVars, priceVars>>
otherThanPrice == <<orchVars, retryVars, tokenVars, quoteVars, swapVars, flashVars>>
otherThanPriceAndRetry == <<orchVars, tokenVars, quoteVars, swapVars, flashVars>>

-----------------------------------------------------------------------------
(* Bounds of the model *)

\* startScanning() + stopScanning() calls made in one behaviour
MaxCalls == 3
\* scanForOpportunities() executions started in one behaviour
MaxScans == 3
\* opportunities stored or being processed beyond which the random draw
\* synthesizes no further one
MaxStore == 1

-----------------------------------------------------------------------------
(* Program constants *)

Null == 0

\* Money is counted in 1e-5 USD, one digit finer than toFixed(4) keeps.
UsdUnit == 100000
\* private minProfitThresholdUsd: number = 5.0
DefaultMinProfitThresholdUsd == 5 * UsdUnit

\* private readonly scanIntervalMs: number = 30000 is not modelled: a timer
\* that is armed may tick at any time, and nothing in the code ties the length
\* of a scan to the period.

\* Token type strings of mockStorage
SUI == "0x2::sui::SUI"
USDC == "0x5d4b302506645c37ff133b98c4b50a5ae14841659738d6d733d59d0d2177914::coin::COIN"
USDT == "0xc060006111016b8a020ad5b33834984a437aaa7d3c74c18e09a95d48aceab54c::coin::COIN"

\* mockStorage.tokenPairs
ShippedTokenPairs ==
    << [tokenA |-> SUI,  tokenB |-> USDC],
       [tokenA |-> SUI,  tokenB |-> USDT],
       [tokenA |-> USDC, tokenB |-> USDT] >>

\* mockStorage.pools with a second venue listed for SUI / USDC
ShippedPoolsWithSecondVenue ==
    << [dex |-> "MockDex", poolId |-> "0xmockpool1", tokenA |-> SUI,  tokenB |-> USDC],
       [dex |-> "MockDex", poolId |-> "0xmockpool2", tokenA |-> SUI,  tokenB |-> USDT],
       [dex |-> "SevenK",  poolId |-> "0xmockpool3", tokenA |-> USDC, tokenB |-> USDT],
       [dex |-> "SevenK",  poolId |-> "0xmockpool4", tokenA |-> SUI,  tokenB |-> USDC] >>

\* mockStorage.pools
ShippedPools ==
    << [dex |-> "MockDex", poolId |-> "0xmockpool1", tokenA |-> SUI,  tokenB |-> USDC],
       [dex |-> "MockDex", poolId |-> "0xmockpool2", tokenA |-> SUI,  tokenB |-> USDT],
       [dex |-> "SevenK",  poolId |-> "0xmockpool3", tokenA |-> USDC, tokenB |-> USDT] >>

\* The tables as shipped, and tables of two pairs in which a second venue is
\* listed for the first pair (with its tokens swapped).
ShippedStorage ==
    [tokenPairs |-> ShippedTokenPairs, pools |-> ShippedPools,
     arbitrageOpportunities |-> << >>]

TwoVenueStorage ==
    [tokenPairs |-> SubSeq(ShippedTokenPairs, 1, 2),
     pools |-> ShippedPools \o
        << [dex |-> "SevenK",  poolId |-> "0xmockpool4", tokenA |-> USDC, tokenB |-> SUI] >>,
     arbitrageOpportunities |-> << >>]

Storages == {ShippedStorage, TwoVenueStorage}

\* Values of Math.random() * 20 + 1 in 1e-5 USD: 4.99994 and 4.99995
RawProfits == {499994, 499995}

\* Arguments given to setMinProfitThreshold
Thresholds == {0, DefaultMinProfitThresholdUsd}

\* An awaited call of the database or of executeArbitrage resolves or rejects.
Outcomes == {"ok", "throws"}

-----------------------------------------------------------------------------
(* Pure helpers *)

\* findPools matching every pool that holds one of the two tokens
FindPoolsOfEitherToken(pools, tokenA, tokenB) ==
    LET Match(p) == p.tokenA \in {tokenA, tokenB} \/ p.tokenB \in {tokenA, tokenB}
    IN  SelectSeq(pools, Match)

\* MockDatabase.findPools: the pools of the unordered pair
FindPools(pools, tokenA, tokenB) ==
    LET Match(p) == \/ (p.tokenA = tokenA /\ p.tokenB = tokenB)
                    \/ (p.tokenA = tokenB /\ p.tokenB = tokenA)
    IN  SelectSeq(pools, Match)

\* Number.prototype.toFixed(4) of a value in 1e-5 USD: the decimal string,
\* held as its number of 1e-4 USD (round half up)
ToFixed4(raw) == (raw + 5) \div 10

\* parseFloat of such a decimal string, back in 1e-5 USD
ParseFloat(fixed4) == fixed4 * 10

\* findArbitrageOpportunities, lines 155-169: the record synthesized for a pair
\* from the two first pools and the random draws
Opportunity(pair, pools, profitableTrade, raw) ==
    [tokenA |-> pair.tokenA, tokenB |-> pair.tokenB,
     entryPoolId |-> pools[1].poolId, exitPoolId |-> pools[2].poolId,
     entryDex |-> pools[1].dex, exitDex |-> pools[2].dex,
     profitableTrade |-> profitableTrade,
     estimatedProfit |-> IF profitableTrade THEN ToFixed4(raw) ELSE 0]

\* ShouldExecute with the comparison of line 193 written <= : a profit equal
\* to the threshold is skipped
ShouldExecuteStrict(opportunity, threshold) ==
    ~ (~opportunity.profitableTrade
       \/ ParseFloat(opportunity.estimatedProfit) <= threshold)

\* processOpportunity, line 193, negated: the opportunity is executed
ShouldExecute(opportunity, threshold) ==
    ~ (~opportunity.profitableTrade
       \/ ParseFloat(opportunity.estimatedProfit) < threshold)

\* addArbitrageOpportunity putting the new record in front
AddArbitrageOpportunityInFront(table, opportunity, error) ==
    << [id |-> Len(table) + 1, opportunity |-> opportunity, error |-> error] >> \o table

\* MockDatabase.addArbitrageOpportunity: the table after the push (the
\* timestamp is left out)
AddArbitrageOpportunity(table, opportunity, error) ==
    Append(table, [id |-> Len(table) + 1, opportunity |-> opportunity, error |-> error])

\* ExecuteArbitrage as the control flow of the specification has it: the swap
\* executor's executeSwap is called once
ExecuteArbitrageViaExecutor(opportunity, outcome) ==
    [opportunity |-> opportunity,
     result |-> IF outcome = "ok" THEN "txHash" ELSE "throws",
     logged |-> outcome = "ok",
     executeSwapCalls |-> 1]

\* executeArbitrage, lines 215-232: what one invocation does. It simulates a
\* transaction hash and logs it; it makes no call of this.executor.
ExecuteArbitrage(opportunity, outcome) ==
    [opportunity |-> opportunity,
     result |-> IF outcome = "ok" THEN "txHash" ELSE "throws",
     logged |-> outcome = "ok",
     executeSwapCalls |-> 0]

\* StartProceeds without the isRunning check of line 63
StartProceedsAlways(running) == TRUE

\* startScanning, line 63: the call goes on to scan
StartProceeds(running) == ~running

\* scanForOpportunities up to its first await
NewScan(origin) ==
    [origin |-> origin, pc |-> "getTokenPairs", idx |-> 0, opp |-> << >>,
     error |-> "", threw |-> ""]

\* the for loop of scanForOpportunities, lines 117-127: on to the next pair
\* (findPools is called and awaited) or to the end of the scan
AdvancePair(sc, tokenPairs) ==
    IF sc.idx + 1 <= Len(tokenPairs)
    THEN [sc EXCEPT !.pc = "findPools", !.idx = sc.idx + 1, !.opp = << >>, !.error = ""]
    ELSE [sc EXCEPT !.pc = "done", !.idx = 0, !.opp = << >>, !.error = ""]

\* scanForOpportunities, lines 128-131: the scan rethrows what the call named
\* by where threw; its locals are gone
Fail(sc, where) ==
    [sc EXCEPT !.pc = "failed", !.idx = 0, !.opp = << >>, !.error = "", !.threw = where]

InProgress(sc) == sc.pc \notin {"done", "failed"}

-----------------------------------------------------------------------------
(* The values the variables of a specification keep under the others *)

\* A JavaScript number: an integer, or NaN
Number(n) == [nan |-> FALSE, v |-> n]
NaN == [nan |-> TRUE, v |-> 0]

\* A JavaScript value as withRetry sees it: an Error or not, and what it says
Undefined == [isError |-> FALSE, message |-> << "undefined" >>]

RetryOff ==
    /\ retryAttempts = Number(0)
    /\ retryDelay = Number(0)
    /\ retryPc = "off"
    /\ attempt = 0
    /\ lastError = Undefined
    /\ retryResult = Undefined
    /\ waits = << >>
    /\ opFailures = 0
    /\ opThrowsError = TRUE
    /\ opCalls = 0

TokenIdle ==
    /\ tokenEntry = "none"
    /\ tokenInput = << >>
    /\ tokenFirst = << >>
    /\ tokenSecond = << >>
    /\ tokenValid = FALSE
    /\ tokenPc = "off"

TokenOff ==
    /\ isMock = TRUE
    /\ TokenIdle

QuoteOff ==
    /\ quoteParams = << >>
    /\ quote = << >>
    /\ quotePc = "off"

NoResponse ==
    [kind |-> "none", isError |-> FALSE, message |-> << >>,
     hasRoutes |-> FALSE, routes |-> 0, hasAmount |-> FALSE]

\* the processed tokens, before the call has processed them
NoTokens == [inputToken |-> << >>, outputToken |-> << >>]

NoResult ==
    [kind |-> "none", error |-> "", isFallback |-> FALSE, isMock |-> FALSE]

SwapOff ==
    /\ swapEntry = "none"
    /\ swapParams = << >>
    /\ swapPc = "off"
    /\ swapTokens = NoTokens
    /\ swapResponse = NoResponse
    /\ swapResult = NoResult
    /\ swapEvents = << >>
    /\ quoteTimer = "none"
    /\ txStatus = "none"
    /\ client = "null"
    /\ keypair = "null"
    /\ signerAddress = "null"

FlashOff ==
    /\ flashEntry = "none"
    /\ flashEnv = << >>
    /\ flashPc = "off"
    /\ txb = << >>
    /\ builtTx = << >>
    /\ flashEvents = << >>
    /\ flashAnswer = << >>
    /\ flashResult = << >>
    /\ flashLog = << >>

\* no getPriceInfo call in progress
NoCall == [inputToken |-> << >>, outputToken |-> << >>, amount |-> << >>, breaks |-> FALSE]

PriceOff ==
    /\ privateKey = "unset"
    /\ lendClient = "null"
    /\ lendKeypair = "null"
    /\ pricePc = "off"
    /\ priceCall = NoCall
    /\ priceLog = << >>

OrchOff ==
    /\ isRunning = FALSE
    /\ scanInterval = Null
    /\ minProfitThresholdUsd = DefaultMinProfitThresholdUsd
    /\ timers = {}
    /\ scans = << >>
    /\ calls = << >>
    /\ executions = << >>
    /\ swapCalls = 0
    /\ mockStorage = ShippedStorage

-----------------------------------------------------------------------------
(* The orchestrator *)

Init ==
    /\ isRunning = FALSE
    /\ scanInterval = Null
    /\ minProfitThresholdUsd = DefaultMinProfitThresholdUsd
    /\ timers = {}
    /\ scans = << >>
    /\ calls = << >>
    /\ executions = << >>
    /\ swapCalls = 0
    /\ mockStorage \in Storages
    /\ RetryOff
    /\ TokenOff
    /\ QuoteOff
    /\ SwapOff
    /\ FlashOff
    /\ PriceOff

\* startScanning(), lines 62-72: up to the await of the initial scan
StartScanning ==
    /\ Len(calls) < MaxCalls
    /\ calls' = Append(calls, "start")
    /\ IF StartProceeds(isRunning)
       THEN /\ Len(scans) < MaxScans
            /\ isRunning' = TRUE
            /\ scans' = Append(scans, NewScan("initial"))
       ELSE UNCHANGED <<isRunning, scans>>
    /\ UNCHANGED <<scanInterval, minProfitThresholdUsd, timers, executions,
                   swapCalls, mockStorage>>
    /\ UNCHANGED otherThanOrch

\* ResumeStart with a scan that failed cancelling the timer
ResumeStartOrCancel(s, origin, newpc) ==
    IF origin = "initial" /\ newpc = "done"
    THEN /\ scanInterval' = s
         /\ timers' = timers \cup {s}
    ELSE IF newpc = "failed"
    THEN /\ scanInterval' = Null
         /\ timers' = {}
    ELSE UNCHANGED <<scanInterval, timers>>

\* startScanning(), lines 74-81, run when the initial scan s has just moved
\* to newpc: the timer is armed after a scan that resolved; a rejected scan
\* rejects the call
ResumeStart(s, origin, newpc) ==
    IF origin = "initial" /\ newpc = "done"
    THEN /\ scanInterval' = s
         /\ timers' = timers \cup {s}
    ELSE UNCHANGED <<scanInterval, timers>>

\* stopScanning(), lines 87-102
StopScanning ==
    /\ Len(calls) < MaxCalls
    /\ calls' = Append(calls, "stop")
    /\ IF ~isRunning
       THEN UNCHANGED <<isRunning, scanInterval, timers>>
       ELSE /\ IF scanInterval # Null
               THEN /\ timers' = timers \ {scanInterval}
                    /\ scanInterval' = Null
               ELSE UNCHANGED <<scanInterval, timers>>
            /\ isRunning' = FALSE
    /\ UNCHANGED <<minProfitThresholdUsd, scans, executions, swapCalls, mockStorage>>
    /\ UNCHANGED otherThanOrch

\* the setInterval callback, lines 75-79: a tick of an armed timer
TimerTick(t) ==
    /\ t \in timers
    /\ Len(scans) < MaxScans
    /\ scans' = Append(scans, NewScan("tick"))
    /\ UNCHANGED <<isRunning, scanInterval, minProfitThresholdUsd, timers, calls,
                   executions, swapCalls, mockStorage>>
    /\ UNCHANGED otherThanOrch

\* setMinProfitThreshold(thresholdUsd), lines 237-240
SetMinProfitThreshold(thresholdUsd) ==
    /\ minProfitThresholdUsd' = thresholdUsd
    /\ UNCHANGED <<isRunning, scanInterval, timers, scans, calls, executions,
                   swapCalls, mockStorage>>
    /\ UNCHANGED otherThanOrch

\* scanForOpportunities, lines 112-118: getTokenPairs() has settled
GotTokenPairs(s) ==
    /\ s \in 1..Len(scans)
    /\ scans[s].pc = "getTokenPairs"
    /\ \E outcome \in Outcomes :
         LET sc == IF outcome = "ok"
                   THEN AdvancePair(scans[s], mockStorage.tokenPairs)
                   ELSE Fail(scans[s], "getTokenPairs")
         IN  /\ scans' = [scans EXCEPT ![s] = sc]
             /\ ResumeStart(s, sc.origin, sc.pc)
    /\ UNCHANGED <<isRunning, minProfitThresholdUsd, calls, executions,
                   swapCalls, mockStorage>>
    /\ UNCHANGED otherThanOrch

\* findArbitrageOpportunities, lines 145-178, and the call of
\* processOpportunity up to its first await (line 188): findPools() has settled
GotPools(s) ==
    /\ s \in 1..Len(scans)
    /\ scans[s].pc = "findPools"
    /\ LET pair  == mockStorage.tokenPairs[scans[s].idx]
           pools == FindPools(mockStorage.pools, pair.tokenA, pair.tokenB)
           next  == AdvancePair(scans[s], mockStorage.tokenPairs)
       IN  \/ \* findPools rejects
              /\ scans' = [scans EXCEPT ![s] = Fail(scans[s], "findPools")]
              /\ UNCHANGED <<scanInterval, timers>>
           \/ \* fewer than two pools, or Math.random() >= 0.25
              /\ scans' = [scans EXCEPT ![s] = next]
              /\ ResumeStart(s, next.origin, next.pc)
           \/ \* Math.random() < 0.25: an opportunity is synthesized
              /\ Len(pools) >= 2
              /\ Len(mockStorage.arbitrageOpportunities)
                    + Cardinality({x \in 1..Len(scans) : scans[x].opp # << >>}) < MaxStore
              /\ \E profitableTrade \in BOOLEAN, raw \in RawProfits :
                   scans' = [scans EXCEPT ![s] =
                       [@ EXCEPT !.pc = "addOpportunity",
                                 !.opp = << Opportunity(pair, pools, profitableTrade, raw) >>]]
              /\ UNCHANGED <<scanInterval, timers>>
    /\ UNCHANGED <<isRunning, minProfitThresholdUsd, calls, executions,
                   swapCalls, mockStorage>>
    /\ UNCHANGED otherThanOrch

\* processOpportunity, lines 188-208: addArbitrageOpportunity(opportunity)
\* has settled; the threshold check and executeArbitrage follow at once
OpportunityPersisted(s) ==
    /\ s \in 1..Len(scans)
    /\ scans[s].pc = "addOpportunity"
    /\ LET opportunity == scans[s].opp[1]
           next == AdvancePair(scans[s], mockStorage.tokenPairs)
           stored == [mockStorage EXCEPT !.arbitrageOpportunities =
                        AddArbitrageOpportunity(@, opportunity, "")]
       IN  \/ \* the database call rejects: the catch block calls it again
              /\ scans' = [scans EXCEPT ![s] =
                     [@ EXCEPT !.pc = "addErrorCopy", !.error = "persist failed"]]
              /\ UNCHANGED <<mockStorage, executions, swapCalls, scanInterval, timers>>
           \/ \* stored, and skipped
              /\ ~ShouldExecute(opportunity, minProfitThresholdUsd)
              /\ mockStorage' = stored
              /\ scans' = [scans EXCEPT ![s] = next]
              /\ ResumeStart(s, next.origin, next.pc)
              /\ UNCHANGED <<executions, swapCalls>>
           \/ \* stored, and executed
              /\ ShouldExecute(opportunity, minProfitThresholdUsd)
              /\ mockStorage' = stored
              /\ \E outcome \in Outcomes :
                   LET e == ExecuteArbitrage(opportunity, outcome)
                       sc == IF outcome = "ok"
                             THEN next
                             ELSE [scans[s] EXCEPT !.pc = "addErrorCopy",
                                                   !.error = "execute failed"]
                   IN  /\ executions' = Append(executions, e)
                       /\ swapCalls' = swapCalls + e.executeSwapCalls
                       /\ scans' = [scans EXCEPT ![s] = sc]
                       /\ ResumeStart(s, sc.origin, sc.pc)
    /\ UNCHANGED <<isRunning, minProfitThresholdUsd, calls>>
    /\ UNCHANGED otherThanOrch

\* processOpportunity, lines 202-209: the addArbitrageOpportunity call of the
\* catch block has settled; nothing catches its rejection before
\* scanForOpportunities does
ErrorCopyPersisted(s) ==
    /\ s \in 1..Len(scans)
    /\ scans[s].pc = "addErrorCopy"
    /\ LET next == AdvancePair(scans[s], mockStorage.tokenPairs)
       IN  \/ /\ mockStorage' = [mockStorage EXCEPT !.arbitrageOpportunities =
                     AddArbitrageOpportunity(@, scans[s].opp[1], scans[s].error)]
              /\ scans' = [scans EXCEPT ![s] = next]
              /\ ResumeStart(s, next.origin, next.pc)
           \/ /\ scans' = [scans EXCEPT ![s] = Fail(scans[s], "processOpportunity")]
              /\ UNCHANGED <<mockStorage, scanInterval, timers>>
    /\ UNCHANGED <<isRunning, minProfitThresholdUsd, calls, executions, swapCalls>>
    /\ UNCHANGED otherThanOrch

Next ==
    \/ StartScanning
    \/ StopScanning
    \/ \E t \in timers : TimerTick(t)
    \/ \E th \in Thresholds : SetMinProfitThreshold(th)
    \/ \E s \in 1..MaxScans : GotTokenPairs(s)
    \/ \E s \in 1..MaxScans : GotPools(s)
    \/ \E s \in 1..MaxScans : OpportunityPersisted(s)
    \/ \E s \in 1..MaxScans : ErrorCopyPersisted(s)

Spec == Init /\ [][Next]_vars

-----------------------------------------------------------------------------
(* Claims about the orchestrator, checked under Spec *)

LastCall == IF calls = << >> THEN "none" ELSE calls[Len(calls)]
StartWasCalled == \E i \in 1..Len(calls) : calls[i] = "start"
OnlyStartCalls == \A i \in 1..Len(calls) : calls[i] = "start"
InitialScans == {s \in 1..Len(scans) : scans[s].origin = "initial"}
ScansInProgress == {s \in 1..Len(scans) : InProgress(scans[s])}
Stored == mockStorage.arbitrageOpportunities

\* C1 (as claimed): once stopScanning() has been called after startScanning(),
\* no scan starts until startScanning() is called again: a step that is not a
\* startScanning() call and is taken while the last call made is a stop
\* starts no scan.
C1_NoScanAfterStop ==
    [][ (LastCall = "stop" /\ StartWasCalled /\ LastCall' = "stop")
            => Len(scans') = Len(scans) ]_vars

\* C2: a startScanning() call made while isRunning holds starts no scan and
\* arms no timer, and as long as only startScanning() was called there is
\* exactly one initial scan and at most one armed timer.
C2_SecondStartIsNoOp ==
    /\ [] ( (calls # << >> /\ OnlyStartCalls)
               => (Cardinality(InitialScans) = 1 /\ Cardinality(timers) <= 1) )
    /\ [][ (isRunning /\ Len(calls') = Len(calls) + 1 /\ LastCall' = "start")
               => (scans' = scans /\ timers' = timers /\ scanInterval' = scanInterval) ]_vars

\* C2 witness: startScanning() was called twice in a row and the initial scan
\* of the first call is still awaiting.
C2_Witness ==
    /\ calls = << "start", "start" >>
    /\ Len(scans) = 1
    /\ InProgress(scans[1])

\* C3 (as claimed): at most one execution of scanForOpportunities() is in
\* progress at any time.
C3_OneScanAtATime == Cardinality(ScansInProgress) <= 1

\* C4 (as claimed): a scan never ends early because the processing of one
\* opportunity failed: no scan is rejected out of processOpportunity.
C4_ScanSurvivesProcessing ==
    \A s \in 1..Len(scans) :
        scans[s].pc = "failed" => scans[s].threw # "processOpportunity"

\* The scan s leaves the first await of processOpportunity in this step.
LeavesPersist(s) ==
    /\ s \in 1..Len(scans)
    /\ scans[s].pc = "addOpportunity"
    /\ scans'[s].pc # "addOpportunity"

Executes == Len(executions') = Len(executions) + 1

\* The step appends the plain record of opportunity o to the store.
PersistsPlain(o) ==
    /\ Len(Stored') = Len(Stored) + 1
    /\ Stored'[Len(Stored')].opportunity = o
    /\ Stored'[Len(Stored')].error = ""

\* C5 (as claimed): for every opportunity given to processOpportunity,
\* executeArbitrage is invoked exactly when profitableTrade is true and the
\* estimated profit reaches the configured threshold.
C5_ExecutedIffProfitable ==
    [][ \A s \in 1..MaxScans : LeavesPersist(s) =>
          LET o == scans[s].opp[1]
          IN  Executes <=> (o.profitableTrade
                            /\ ParseFloat(o.estimatedProfit) >= minProfitThresholdUsd) ]_vars

\* C5 (amended): executeArbitrage is invoked exactly when the persistence call
\* of the opportunity succeeded, profitableTrade is true and the estimated
\* profit reaches the threshold configured at that moment; it is invoked with
\* that opportunity, in the step that stored it, and in no other step.
C5_ExecutedIffPersistedAndProfitable ==
    [][ /\ \A s \in 1..MaxScans : LeavesPersist(s) =>
             LET o == scans[s].opp[1]
             IN  /\ Executes <=> (/\ PersistsPlain(o)
                                  /\ o.profitableTrade
                                  /\ ParseFloat(o.estimatedProfit) >= minProfitThresholdUsd)
                 /\ Executes => executions'[Len(executions')].opportunity = o
        /\ executions' # executions =>
             /\ Executes
             /\ SubSeq(executions', 1, Len(executions)) = executions
             /\ \E s \in 1..MaxScans : LeavesPersist(s) ]_vars

\* C5 witness: an opportunity whose estimated profit is exactly 5.0000, the
\* default threshold, was stored and then executed.
C5_Witness ==
    /\ Len(executions) >= 1
    /\ executions[1].opportunity.estimatedProfit * 10 = DefaultMinProfitThresholdUsd
    /\ Len(Stored) >= 1
    /\ Stored[1].opportunity = executions[1].opportunity

FailedScheduledScans ==
    {s \in 1..Len(scans) : scans[s].origin = "tick" /\ scans[s].pc = "failed"}
FailsNow(s) ==
    /\ s \in 1..Len(scans)
    /\ scans[s].origin = "tick"
    /\ scans[s].pc # "failed"
    /\ scans'[s].pc = "failed"

\* C20: a scheduled scan that fails does not cancel the repeating timer and
\* does not change isRunning: the step in which a scheduled scan fails leaves
\* timers, scanInterval and isRunning as they were, and after any number of
\* failed scheduled scans, as long as the scanner is running with its timer
\* armed, the timer is still there and its next tick starts a scan.
C20_FailedScanKeepsTimer ==
    /\ [][ \A s \in 1..MaxScans :
              FailsNow(s) => /\ timers' = timers
                             /\ scanInterval' = scanInterval
                             /\ isRunning' = isRunning ]_vars
    /\ []( (FailedScheduledScans # {} /\ isRunning /\ scanInterval # Null)
              => /\ scanInterval \in timers
                 /\ Len(scans) < MaxScans => ENABLED TimerTick(scanInterval) )

\* C20 witness: the scanner is running with its timer armed, a scheduled scan
\* has failed and the scan a later tick started has just begun.
C20_Witness ==
    /\ isRunning
    /\ scanInterval \in timers
    /\ Len(scans) = 3
    /\ scans[2].origin = "tick"
    /\ scans[2].pc = "failed"
    /\ scans[3].origin = "tick"
    /\ scans[3].pc = "getTokenPairs"

StopCalled == Len(calls') = Len(calls) + 1 /\ LastCall' = "stop"

\* C21 (as claimed): stopScanning() cancels the armed timer and is idempotent:
\* after a call no timer is armed, scanInterval is null and isRunning is
\* false, and a call made when the scanner is not running changes neither
\* isRunning nor scanInterval nor the timers.
C21_StopCancelsAndIsIdempotent ==
    [][ StopCalled =>
          /\ ~isRunning'
          /\ scanInterval' = Null
          /\ timers' = {}
          /\ ~isRunning => /\ scanInterval' = scanInterval
                           /\ timers' = timers ]_vars

\* the pools listed for the unordered pair of an opportunity
PoolsListedFor(o) ==
    {i \in 1..Len(mockStorage.pools) :
        LET p == mockStorage.pools[i]
        IN  {p.tokenA, p.tokenB} = {o.tokenA, o.tokenB}}
Synthesized ==
    {scans[s].opp[1] : s \in {x \in 1..Len(scans) : scans[x].opp # << >>}}
    \cup {Stored[i].opportunity : i \in 1..Len(Stored)}
    \cup {executions[i].opportunity : i \in 1..Len(executions)}

\* C22: a token pair for which findPools returns fewer than two pools is
\* skipped: every opportunity synthesized, persisted or executed is for a pair
\* with at least two pools, made of the first two of them.
C22_OpportunityNeedsTwoPools ==
    \A o \in Synthesized :
        /\ Cardinality(PoolsListedFor(o)) >= 2
        /\ o.entryPoolId # o.exitPoolId

\* C22 witness: in tables where the first pair has two pools and the second
\* has one, a scan has visited both pairs and holds one stored opportunity,
\* of the first pair.
C22_Witness ==
    /\ Len(mockStorage.tokenPairs) = 2
    /\ Len(scans) = 1
    /\ scans[1].pc = "done"
    /\ Len(Stored) = 1
    /\ Stored[1].opportunity.tokenA = SUI
    /\ Stored[1].opportunity.tokenB = USDC

\* C26: the arbitrage-opportunity store is append-only: every step leaves each
\* stored record at its position with its content and adds at most one
\* record, at the end, numbered by its position; the call of the catch path
\* that resolves adds the error-annotated copy there.
C26_StoreIsAppendOnly ==
    [][ /\ Len(Stored') \in {Len(Stored), Len(Stored) + 1}
        /\ \A i \in 1..Len(Stored) : Stored'[i] = Stored[i]
        /\ Len(Stored') = Len(Stored) + 1 => Stored'[Len(Stored')].id = Len(Stored')
        /\ \A s \in 1..Len(scans) :
              (scans[s].pc = "addErrorCopy" /\ scans'[s].pc \notin {"addErrorCopy", "failed"})
                 => /\ Len(Stored') = Len(Stored) + 1
                    /\ Stored'[Len(Stored')].opportunity = scans[s].opp[1]
                    /\ Stored'[Len(Stored')].error = scans[s].error ]_vars

\* C26 witness: an opportunity was stored, its execution failed and the catch
\* path stored the annotated copy after it.
C26_Witness ==
    /\ Len(Stored) = 2
    /\ Stored[1].error = ""
    /\ Stored[2].error = "execute failed"
    /\ Stored[2].opportunity = Stored[1].opportunity
    /\ Len(executions) = 1

\* C27 (as claimed): whenever no startScanning() call is in progress,
\* isRunning is true exactly when scanInterval is non-null.
C27_RunningIffTimerArmed ==
    (\A s \in InitialScans : ~InProgress(scans[s]))
        => (isRunning <=> scanInterval # Null)

\* C28: with the tables as shipped every pair has fewer than two pools, so
\* the arbitrage-opportunity store stays empty and executeArbitrage is never
\* invoked, whatever the draws and however many scans run.
C28_ShippedDataYieldsNothing ==
    (mockStorage.tokenPairs = ShippedTokenPairs /\ mockStorage.pools = ShippedPools)
        => /\ Stored = << >>
           /\ executions = << >>
           /\ \A s \in 1..Len(scans) : scans[s].opp = << >>

\* C28 witness: with the tables as shipped the initial scan and two scheduled
\* scans have visited the three pairs and ended.
C28_Witness ==
    /\ mockStorage.tokenPairs = ShippedTokenPairs
    /\ mockStorage.pools = ShippedPools
    /\ Len(scans) = 3
    /\ \A s \in 1..3 : scans[s].pc = "done"
    /\ Stored = << >>

-----------------------------------------------------------------------------
(* Strings are sequences of one-character strings. *)

Digits == << "0", "1", "2", "3", "4", "5", "6", "7", "8", "9" >>
IsDigit(c) == \E i \in 1..10 : Digits[i] = c
DigitValue(c) == (CHOOSE i \in 1..10 : Digits[i] = c) - 1
IsWhiteSpace(c) == c \in {" ", "\t", "\n", "\r"}

\* s without its leading white space (the StrWhiteSpaceChar prefix parseInt and
\* trim skip)
RECURSIVE TrimStart(_)
TrimStart(s) ==
    IF s # << >> /\ IsWhiteSpace(Head(s)) THEN TrimStart(Tail(s)) ELSE s

\* the longest prefix of s made of decimal digits
RECURSIVE LeadingDigits(_)
LeadingDigits(s) ==
    IF s # << >> /\ IsDigit(Head(s)) THEN << Head(s) >> \o LeadingDigits(Tail(s)) ELSE << >>

\* the number a sequence of decimal digits denotes
RECURSIVE DecimalValue(_)
DecimalValue(ds) ==
    IF ds = << >> THEN 0
    ELSE 10 * DecimalValue(SubSeq(ds, 1, Len(ds) - 1)) + DigitValue(ds[Len(ds)])

\* parseInt(s, 10): leading white space is skipped, a sign is read, then the
\* digits up to the first character that is none; NaN when there is no digit
ParseInt10(s) ==
    LET t == TrimStart(s)
        negative == t # << >> /\ Head(t) = "-"
        unsigned == IF t # << >> /\ Head(t) \in {"+", "-"} THEN Tail(t) ELSE t
        ds == LeadingDigits(unsigned)
    IN  IF ds = << >> THEN NaN
        ELSE Number(IF negative THEN 0 - DecimalValue(ds) ELSE DecimalValue(ds))

\* process.env.X || fallback: an unset or empty variable gives the fallback
Unset == << "unset" >>
EnvOr(value, fallback) == IF value = Unset \/ value = << >> THEN fallback ELSE value

\* JavaScript arithmetic and comparison on numbers that may be NaN
Times(a, b) == IF a.nan \/ b.nan THEN NaN ELSE Number(a.v * b.v)
LessThan(a, b) == ~a.nan /\ ~b.nan /\ a.v < b.v
LessOrEqual(a, b) == ~a.nan /\ ~b.nan /\ a.v <= b.v

-----------------------------------------------------------------------------
(* SuiLendExecutor.withRetry *)

\* Bounds: the largest SUILEND_RETRY_ATTEMPTS tried, and the largest number
\* of times the operation rejects before it resolves
MaxRetryAttempts == 3
MaxFailures == 3

\* an operation that rejects every time it is invoked
Always == MaxFailures + 1

\* Values of SUILEND_RETRY_ATTEMPTS: unset, empty, every count up to the bound,
\* and strings parseInt reads in part or not at all
EnvRetryAttempts ==
    {Unset, << >>} \cup { << Digits[n + 1] >> : n \in 0..MaxRetryAttempts }
      \cup { << "-", "1" >>, << " ", "2" >>, << "2", ".", "7" >>, << "1", "x" >>,
             << "a", "b", "c" >> }

\* Values of SUILEND_RETRY_DELAY
EnvRetryDelay == { Unset, << "0" >>, << "2", "5", "0" >>, << "f", "a", "s", "t" >> }

\* the n-th invocation of the operation rejects
OperationRejects(failures, n) == failures = Always \/ n <= failures

\* what the n-th invocation rejects with, and what it resolves with
OperationError(n, isError) == [isError |-> isError, message |-> << "attempt", n >>]
OperationValue(n) == [isError |-> FALSE, message |-> << "value", n >>]

\* line 430: error instanceof Error ? error : new Error(String(error))
ToError(e) == IF e.isError THEN e ELSE [isError |-> TRUE, message |-> e.message]

\* line 444: new Error('Operation failed after maximum retry attempts')
MaxAttemptsError ==
    [isError |-> TRUE, message |-> << "Operation failed after maximum retry attempts" >>]

\* LoopContinues with < for <= : the last attempt is never made
LoopContinuesOffByOne(n, attempts) == LessThan(Number(n), attempts)

\* line 425: the loop condition attempt <= this.retryAttempts
LoopContinues(n, attempts) == LessOrEqual(Number(n), attempts)

\* line 436: attempt < this.retryAttempts
WillRetry(n, attempts) == LessThan(Number(n), attempts)

\* RetryDelayFor without the factor: the same delay before every attempt
RetryDelayConstant(delay, n) == delay

\* line 437: const delay = this.retryDelay * attempt
RetryDelayFor(delay, n) == Times(delay, Number(n))

\* the constructor, lines 138-139, then the state before withRetry is called
InitRetry ==
    /\ \E e \in EnvRetryAttempts :
         retryAttempts = ParseInt10(EnvOr(e, << "3" >>))
    /\ \E e \in EnvRetryDelay :
         retryDelay = ParseInt10(EnvOr(e, << "1", "0", "0", "0" >>))
    /\ retryPc = "idle"
    /\ attempt = 0
    /\ lastError = Undefined
    /\ retryResult = Undefined
    /\ waits = << >>
    /\ opFailures \in (0..MaxFailures) \cup {Always}
    /\ opThrowsError \in BOOLEAN
    /\ opCalls = 0
    /\ OrchOff
    /\ TokenOff
    /\ QuoteOff
    /\ SwapOff
    /\ FlashOff
    /\ PriceOff

\* lines 425-428 and 444, entered with the loop variable at n: the operation
\* is invoked, or the loop is over and withRetry throws
EnterLoop(n) ==
    /\ attempt' = n
    /\ IF LoopContinues(n, retryAttempts)
       THEN /\ retryPc' = "operation"
            /\ opCalls' = opCalls + 1
            /\ retryResult' = retryResult
       ELSE /\ retryPc' = "thrown"
            /\ retryResult' = IF lastError' # Undefined THEN lastError' ELSE MaxAttemptsError
            /\ opCalls' = opCalls

\* withRetry(operation), lines 422-428: the call, up to the first await
WithRetry ==
    /\ retryPc = "idle"
    /\ lastError' = Undefined
    /\ EnterLoop(1)
    /\ UNCHANGED <<retryAttempts, retryDelay, waits, opFailures, opThrowsError>>
    /\ UNCHANGED otherThanRetry

\* lines 428-441: the awaited operation has settled
OperationSettled ==
    /\ retryPc = "operation"
    /\ IF ~OperationRejects(opFailures, opCalls)
       THEN /\ retryPc' = "returned"
            /\ retryResult' = OperationValue(opCalls)
            /\ UNCHANGED <<attempt, lastError, waits, opCalls>>
       ELSE /\ lastError' = ToError(OperationError(opCalls, opThrowsError))
            /\ IF WillRetry(attempt, retryAttempts)
               THEN /\ waits' = Append(waits, RetryDelayFor(retryDelay, attempt))
                    /\ retryPc' = "delay"
                    /\ UNCHANGED <<attempt, retryResult, opCalls>>
               ELSE /\ waits' = waits
                    /\ EnterLoop(attempt + 1)
    /\ UNCHANGED <<retryAttempts, retryDelay, opFailures, opThrowsError>>
    /\ UNCHANGED otherThanRetry

\* lines 439 and 425: the setTimeout of the delay has fired
DelayElapsed ==
    /\ retryPc = "delay"
    /\ lastError' = lastError
    /\ EnterLoop(attempt + 1)
    /\ UNCHANGED <<retryAttempts, retryDelay, waits, opFailures, opThrowsError>>
    /\ UNCHANGED otherThanRetry

NextRetry ==
    \/ WithRetry
    \/ OperationSettled
    \/ DelayElapsed

SpecRetry == InitRetry /\ [][NextRetry]_vars

-----------------------------------------------------------------------------
(* Claims about withRetry, checked under SpecRetry *)

RetrySettled == retryPc \in {"returned", "thrown"}

\* C7: when the operation rejects exactly k times and then resolves, with
\* k < retryAttempts, withRetry returns the value the operation resolved with
\* and has invoked the operation exactly k + 1 times.
C7_ReturnsAfterKFailures ==
    (RetrySettled /\ opFailures # Always /\ LessThan(Number(opFailures), retryAttempts))
        => /\ retryPc = "returned"
           /\ retryResult = OperationValue(opFailures + 1)
           /\ opCalls = opFailures + 1

\* C7 witness: the operation rejected twice, resolved at the third of three
\* attempts, and withRetry returned.
C7_Witness ==
    /\ retryPc = "returned"
    /\ retryAttempts = Number(3)
    /\ opFailures = 2
    /\ opCalls = 3

\* C8: when the operation rejects at every attempt (and retryAttempts >= 1, so
\* that there is a last attempt), withRetry invokes it exactly retryAttempts
\* times, waits retryDelay * i after the i-th rejection for each
\* i < retryAttempts and not after the last, and throws the error of the last
\* attempt (as new Error(String(e)) when it is no Error).
C8_ThrowsLastErrorAfterAllAttempts ==
    (RetrySettled /\ opFailures = Always /\ LessOrEqual(Number(1), retryAttempts))
        => /\ retryPc = "thrown"
           /\ opCalls = retryAttempts.v
           /\ waits = [i \in 1..(retryAttempts.v - 1) |-> Times(retryDelay, Number(i))]
           /\ retryResult = ToError(OperationError(retryAttempts.v, opThrowsError))

\* C8 witness: three attempts were made and all rejected, two delays were
\* waited for, and withRetry has thrown.
C8_Witness ==
    /\ retryPc = "thrown"
    /\ opFailures = Always
    /\ retryAttempts = Number(3)
    /\ opCalls = 3
    /\ waits = << Number(250), Number(500) >>
    /\ ~opThrowsError

\* C29 (as claimed): withRetry never fails without having invoked the
\* operation at least once, whatever retryAttempts was parsed to, and never
\* invokes it more than retryAttempts times.
C29_FailsOnlyAfterACall ==
    /\ retryPc = "thrown" => opCalls >= 1
    /\ (~retryAttempts.nan /\ retryAttempts.v >= 0) => opCalls <= retryAttempts.v

-----------------------------------------------------------------------------
(* Characters and the regular expressions of config/sevenk.ts *)

LowerCase == << "a", "b", "c", "d", "e", "f", "g", "h", "i", "j", "k", "l", "m", "n", "o", "p", "q", "r", "s", "t", "u", "v", "w", "x", "y", "z" >>
UpperCase == << "A", "B", "C", "D", "E", "F", "G", "H", "I", "J", "K", "L", "M", "N", "O", "P", "Q", "R", "S", "T", "U", "V", "W", "X", "Y", "Z" >>

IsLower(c) == \E i \in 1..26 : LowerCase[i] = c
IsUpper(c) == \E i \in 1..26 : UpperCase[i] = c

\* IsHexChar without the capital letters
IsHexCharLowerOnly(c) == IsDigit(c) \/ c \in {"a", "b", "c", "d", "e", "f"}

\* [a-fA-F0-9]
IsHexChar(c) == IsDigit(c) \/ c \in {"a", "b", "c", "d", "e", "f", "A", "B", "C", "D", "E", "F"}

\* [a-zA-Z0-9_]
IsIdentChar(c) == IsLower(c) \/ IsUpper(c) \/ IsDigit(c) \/ c = "_"

\* [a-fA-F0-9]+ and [a-zA-Z0-9_]+ matched against a whole string
IsHexRun(s) == s # << >> /\ \A i \in 1..Len(s) : IsHexChar(s[i])
IsIdent(s) == s # << >> /\ \A i \in 1..Len(s) : IsIdentChar(s[i])

\* String.prototype.toUpperCase
ToUpperChar(c) == IF IsLower(c) THEN UpperCase[CHOOSE i \in 1..26 : LowerCase[i] = c] ELSE c
ToUpperCase(s) == [i \in 1..Len(s) |-> ToUpperChar(s[i])]

\* String.prototype.trim
RECURSIVE TrimEnd(_)
TrimEnd(s) ==
    IF s # << >> /\ IsWhiteSpace(s[Len(s)]) THEN TrimEnd(SubSeq(s, 1, Len(s) - 1)) ELSE s
Trim(s) == TrimEnd(TrimStart(s))

\* String.prototype.includes
Includes(s, sub) ==
    \E i \in 0..(Len(s) - Len(sub)) : SubSeq(s, i + 1, i + Len(sub)) = sub

\* the strings first for which s is first \o "::" \o second \o "::" \o third
\* with second and third matching [a-zA-Z0-9_]+ : what stands before the
\* ::[a-zA-Z0-9_]+::[a-zA-Z0-9_]+$ both regular expressions with '::' end in
TripleFirsts(s) ==
    { SubSeq(s, 1, i - 1) :
        i \in { i \in 1..Len(s) :
                  \E j \in 1..Len(s) :
                      /\ i < j
                      /\ j + 1 < Len(s)
                      /\ SubSeq(s, i, i + 1) = << ":", ":" >>
                      /\ IsIdent(SubSeq(s, i + 2, j - 1))
                      /\ SubSeq(s, j, j + 1) = << ":", ":" >>
                      /\ IsIdent(SubSeq(s, j + 2, Len(s))) } }

\* 0x[a-fA-F0-9]+
IsPrefixedHex(s) == Len(s) > 2 /\ SubSeq(s, 1, 2) = << "0", "x" >> /\ IsHexRun(SubSeq(s, 3, Len(s)))

\* validateTokenFormat, lines 44-48: /^0x[a-fA-F0-9]+::[a-zA-Z0-9_]+::[a-zA-Z0-9_]+$/
ValidateTokenFormat(tokenAddress) == \E first \in TripleFirsts(tokenAddress) : IsPrefixedHex(first)

\* line 65: /^0x[a-fA-F0-9]+$/
IsBareHexAddress(s) == IsPrefixedHex(s)

\* IsUnprefixedTriple with [a-zA-Z0-9_]+ for the first segment too
IsUnprefixedTripleAnyIdent(s) == \E first \in TripleFirsts(s) : IsIdent(first)

\* line 70: /^[a-fA-F0-9]+::[a-zA-Z0-9_]+::[a-zA-Z0-9_]+$/
IsUnprefixedTriple(s) == \E first \in TripleFirsts(s) : IsHexRun(first)

\* FixTokenFormat giving back the trimmed string when it cannot repair it
FixTokenFormatTrimmed(tokenAddress) ==
    LET fixed == Trim(tokenAddress)
    IN  IF ValidateTokenFormat(tokenAddress) THEN tokenAddress
        ELSE IF IsBareHexAddress(fixed) THEN fixed \o << ":", ":", "c", "o", "i", "n", ":", ":", "C", "O", "I", "N" >>
        ELSE IF IsUnprefixedTriple(fixed) THEN << "0", "x" >> \o fixed
        ELSE fixed

\* fixTokenFormat, lines 55-76
FixTokenFormat(tokenAddress) ==
    LET fixed == Trim(tokenAddress)
    IN  IF ValidateTokenFormat(tokenAddress) THEN tokenAddress
        ELSE IF IsBareHexAddress(fixed) THEN fixed \o << ":", ":", "c", "o", "i", "n", ":", ":", "C", "O", "I", "N" >>
        ELSE IF IsUnprefixedTriple(fixed) THEN << "0", "x" >> \o fixed
        ELSE tokenAddress

-----------------------------------------------------------------------------
(* The token tables *)

SuiType == << "0", "x", "2", ":", ":", "s", "u", "i", ":", ":", "S", "U", "I" >>
UsdcType == << "0", "x", "5", "d", "4", "b", "3", "0", "2", "5", "0", "6", "6", "4", "5", "c", "3", "7", "f", "f", "1", "3", "3", "b", "9", "8", "c", "4", "b", "5", "0", "a", "5", "a", "e", "1", "4", "8", "4", "1", "6", "5", "9", "7", "3", "8", "d", "6", "d", "7", "3", "3", "d", "5", "9", "d", "0", "d", "2", "1", "7", "7", "9", "1", "4", ":", ":", "c", "o", "i", "n", ":", ":", "C", "O", "I", "N" >>
UsdtType == << "0", "x", "c", "0", "6", "0", "0", "0", "6", "1", "1", "1", "0", "1", "6", "b", "8", "a", "0", "2", "0", "a", "d", "5", "b", "3", "3", "8", "3", "4", "9", "8", "4", "a", "4", "3", "7", "a", "a", "a", "7", "d", "3", "c", "7", "4", "c", "1", "8", "e", "0", "9", "a", "9", "5", "d", "4", "8", "a", "c", "e", "a", "b", "5", "4", "c", ":", ":", "c", "o", "i", "n", ":", ":", "C", "O", "I", "N" >>
WethType == << "0", "x", "a", "f", "8", "c", "d", "5", "e", "d", "c", "1", "9", "c", "4", "5", "1", "2", "f", "4", "2", "5", "9", "f", "0", "b", "e", "e", "1", "0", "1", "a", "4", "0", "d", "4", "1", "e", "b", "e", "d", "7", "3", "8", "a", "d", "e", "5", "8", "7", "4", "3", "5", "9", "6", "1", "0", "e", "f", "8", "e", "e", "c", "e", "d", "5", ":", ":", "c", "o", "i", "n", ":", ":", "C", "O", "I", "N" >>
BtcType == << "0", "x", "0", "2", "7", "7", "9", "2", "d", "9", "f", "e", "d", "7", "f", "9", "8", "4", "4", "e", "b", "4", "8", "3", "9", "5", "6", "6", "0", "0", "1", "b", "b", "6", "f", "6", "c", "b", "4", "8", "0", "4", "f", "6", "6", "a", "a", "2", "d", "a", "6", "f", "e", "1", "e", "e", "2", "4", "2", "d", "8", "9", "6", "8", "8", "1", ":", ":", "c", "o", "i", "n", ":", ":", "C", "O", "I", "N" >>
WbtcType == << "0", "x", "5", "f", "8", "c", "8", "d", "4", "b", "1", "5", "9", "1", "b", "9", "d", "c", "f", "d", "3", "a", "2", "1", "d", "d", "1", "2", "3", "b", "b", "7", "c", "5", "c", "0", "d", "4", "9", "9", "2", "d", "c", "1", "a", "2", "6", "5", "3", "e", "3", "7", "d", "7", "3", "5", "1", "b", "3", "e", "5", "7", "7", "e", "e", "5", ":", ":", "c", "o", "i", "n", ":", ":", "C", "O", "I", "N" >>
CeloType == << "0", "x", "8", "d", "1", "1", "2", "8", "3", "7", "c", "4", "1", "2", "e", "c", "5", "a", "a", "1", "c", "f", "3", "5", "8", "7", "8", "d", "9", "b", "1", "5", "d", "9", "4", "e", "6", "2", "c", "4", "8", "0", "9", "7", "c", "6", "3", "8", "9", "4", "0", "c", "d", "1", "5", "d", "4", "1", "c", "c", "c", "4", "c", "1", "b", "1", ":", ":", "c", "o", "i", "n", ":", ":", "C", "O", "I", "N" >>

\* TOKEN_MAP of config/sevenk.ts, lines 7-15
TOKEN_MAP ==
    (<< "S", "U", "I" >> :> SuiType) @@ (<< "U", "S", "D", "C" >> :> UsdcType) @@ (<< "U", "S", "D", "T" >> :> UsdtType)
      @@ (<< "W", "E", "T", "H" >> :> WethType) @@ (<< "B", "T", "C" >> :> BtcType) @@ (<< "W", "B", "T", "C" >> :> WbtcType)
      @@ (<< "C", "E", "L", "O" >> :> CeloType)

\* mockTokenMap of getProperTokenAddress, lines 261-266
mockTokenMap ==
    (<< "S", "U", "I" >> :> SuiType) @@ (<< "U", "S", "D", "C" >> :> UsdcType) @@ (<< "U", "S", "D", "T" >> :> UsdtType)

\* what getTokenAddress returns for a string it does not know
NullAddress == << "null" >>

\* getTokenAddress, lines 22-37
GetTokenAddress(symbolOrAddress) ==
    LET upperSymbol == ToUpperCase(symbolOrAddress)
    IN  IF ValidateTokenFormat(symbolOrAddress) THEN symbolOrAddress
        ELSE IF upperSymbol \in DOMAIN TOKEN_MAP THEN TOKEN_MAP[upperSymbol]
        ELSE NullAddress

\* getProperTokenAddress, lines 258-310: the mock branch and the live one
GetProperTokenAddress(mock, symbolOrAddress) ==
    LET upperSymbol == ToUpperCase(symbolOrAddress)
        fixed == FixTokenFormat(symbolOrAddress)
        dbAddress == GetTokenAddress(symbolOrAddress)
    IN  IF mock
        THEN IF ValidateTokenFormat(symbolOrAddress) THEN symbolOrAddress
             ELSE IF upperSymbol \in DOMAIN mockTokenMap THEN mockTokenMap[upperSymbol]
             ELSE IF ValidateTokenFormat(fixed) THEN fixed
             ELSE symbolOrAddress
        ELSE IF dbAddress # NullAddress THEN dbAddress
             ELSE fixed

-----------------------------------------------------------------------------
(* SpecToken: a string is resolved, and the result is resolved again *)

TokenEntries == {"getProperTokenAddress", "fixTokenFormat", "validateTokenFormat"}

\* The strings tried: white space, a prefix, a first segment, the rest and
\* white space again, put together in every way; symbols in several letter
\* cases; addresses of the tables
Leads == { << >>, << " " >> }
Prefixes == { << >>, << "0", "x" >>, << "0", "X" >> }
FirstSegments == { << >>, << "2" >>, << "a", "F" >>, << "g", "1" >> }
Rests == { << >>, << ":", ":", "s", "u", "i", ":", ":", "S", "U", "I" >>, << ":", ":", "c", "o", "i", "n" >>, << ":", ":", "m", "y", " ", "c", "o", "i", "n", ":", ":", "C" >>, << ":", "s", "u", "i", ":", ":", "S", "U", "I" >> }
Trails == { << >>, << " " >>, << "\n" >> }

SymbolInputs ==
    { << "S", "U", "I" >>, << "s", "u", "i" >>, << "U", "s", "d", "c" >>, << "u", "s", "d", "t" >>, << "w", "e", "t", "h" >>, << "B", "T", "C" >>, << "w", "B", "t", "c" >>,
      << "c", "e", "l", "o" >>, << "D", "O", "G", "E" >>, << " ", "s", "u", "i" >>, << "u", "s", "d", "c", "\n" >> }

TokenInputs ==
    { lead \o prefix \o first \o rest \o trail :
        lead \in Leads, prefix \in Prefixes, first \in FirstSegments,
        rest \in Rests, trail \in Trails }
      \cup SymbolInputs
      \cup { SuiType, UsdcType, CeloType, << " " >> \o UsdtType, SubSeq(BtcType, 3, Len(BtcType)) }

\* resolve: the function called, applied to x
Resolve(entry, mock, x) ==
    IF entry = "fixTokenFormat" THEN FixTokenFormat(x) ELSE GetProperTokenAddress(mock, x)

InitToken ==
    /\ isMock \in BOOLEAN
    /\ tokenEntry \in TokenEntries
    /\ tokenInput \in TokenInputs
    /\ tokenFirst = << >>
    /\ tokenSecond = << >>
    /\ tokenValid = FALSE
    /\ tokenPc = "input"
    /\ OrchOff
    /\ RetryOff
    /\ QuoteOff
    /\ SwapOff
    /\ FlashOff
    /\ PriceOff

\* validateTokenFormat(x)
ValidateInput ==
    /\ tokenPc = "input"
    /\ tokenEntry = "validateTokenFormat"
    /\ tokenValid' = ValidateTokenFormat(tokenInput)
    /\ tokenPc' = "validated"
    /\ UNCHANGED <<isMock, tokenEntry, tokenInput, tokenFirst, tokenSecond>>
    /\ UNCHANGED otherThanToken

\* resolve(x)
ResolveInput ==
    /\ tokenPc = "input"
    /\ tokenEntry # "validateTokenFormat"
    /\ tokenFirst' = Resolve(tokenEntry, isMock, tokenInput)
    /\ tokenPc' = "resolved"
    /\ UNCHANGED <<isMock, tokenEntry, tokenInput, tokenSecond, tokenValid>>
    /\ UNCHANGED otherThanToken

\* resolve(resolve(x))
ResolveAgain ==
    /\ tokenPc = "resolved"
    /\ tokenSecond' = Resolve(tokenEntry, isMock, tokenFirst)
    /\ tokenPc' = "resolvedAgain"
    /\ UNCHANGED <<isMock, tokenEntry, tokenInput, tokenFirst, tokenValid>>
    /\ UNCHANGED otherThanToken

NextToken ==
    \/ ValidateInput
    \/ ResolveInput
    \/ ResolveAgain

SpecToken == InitToken /\ [][NextToken]_vars

-----------------------------------------------------------------------------
(* Claims about token resolution, checked under SpecToken *)

\* C10: token resolution is idempotent: for every input string x,
\* resolve(resolve(x)) = resolve(x), for resolve = getProperTokenAddress (in
\* mock and in live mode) and for resolve = fixTokenFormat.
C10_ResolveIsIdempotent ==
    tokenPc = "resolvedAgain" => tokenSecond = tokenFirst

\* C10 witness: an unprefixed triple with white space around it was repaired
\* by getProperTokenAddress, and resolving the repaired address gave it back.
C10_Witness ==
    /\ tokenPc = "resolvedAgain"
    /\ tokenEntry = "getProperTokenAddress"
    /\ tokenInput = << " ", "a", "F", ":", ":", "s", "u", "i", ":", ":", "S", "U", "I", "\n" >>
    /\ tokenFirst = << "0", "x", "a", "F", ":", ":", "s", "u", "i", ":", ":", "S", "U", "I" >>
    /\ tokenSecond = tokenFirst

\* the table getProperTokenAddress looks symbols up in; fixTokenFormat has none
SymbolTable(entry, mock) ==
    IF entry = "fixTokenFormat" THEN << >>
    ELSE IF mock THEN mockTokenMap ELSE TOKEN_MAP

\* C11: token resolution never throws (every call ends with a result), and
\* its result satisfies validateTokenFormat or is the input unchanged: a valid
\* input is returned as is, a known symbol gives its table address, a bare
\* 0x-hex address gets ::coin::COIN appended, an unprefixed hex::ident::ident
\* triple gets 0x prepended (both after trimming), and anything else is
\* returned untouched.
C11_ValidOrUntouched ==
    tokenPc \in {"resolved", "resolvedAgain"} =>
        LET x == tokenInput
            r == tokenFirst
            table == SymbolTable(tokenEntry, isMock)
            valid == ValidateTokenFormat(x)
            known == ~valid /\ ToUpperCase(x) \in DOMAIN table
            bareHex == ~valid /\ ~known /\ IsBareHexAddress(Trim(x))
            triple == ~valid /\ ~known /\ ~bareHex /\ IsUnprefixedTriple(Trim(x))
        IN  /\ ValidateTokenFormat(r) \/ r = x
            /\ valid => r = x
            /\ known => r = table[ToUpperCase(x)]
            /\ bareHex => r = Trim(x) \o << ":", ":", "c", "o", "i", "n", ":", ":", "C", "O", "I", "N" >>
            /\ triple => r = << "0", "x" >> \o Trim(x)
            /\ (~valid /\ ~known /\ ~bareHex /\ ~triple) => r = x

\* C11 witness: a bare hex address with white space around it was trimmed
\* and got ::coin::COIN appended.
C11_Witness ==
    /\ tokenPc = "resolved"
    /\ tokenInput = << " ", "0", "x", "2", " " >>
    /\ tokenFirst = << "0", "x", "2", ":", ":", "c", "o", "i", "n", ":", ":", "C", "O", "I", "N" >>

\* Inputs of the form 0x<hex digits>::<identifier>::<identifier>, and inputs
\* that lack one of the two ::<identifier> segments
WellFormedInputs ==
    { << "0", "x" >> \o first \o rest :
        first \in { << "2" >>, << "a", "F" >> },
        rest \in { << ":", ":", "s", "u", "i", ":", ":", "S", "U", "I" >> } }
      \cup { SuiType, UsdcType, CeloType }
SegmentLackingInputs ==
    { lead \o prefix \o first \o rest \o trail :
        lead \in Leads, prefix \in Prefixes, first \in FirstSegments,
        rest \in { << >>, << ":", ":", "c", "o", "i", "n" >>, << ":", "s", "u", "i", ":", ":", "S", "U", "I" >> }, trail \in Trails }
      \cup SymbolInputs

\* C12: validateTokenFormat returns true for every string of the form
\* 0x<one or more hex digits>::<identifier>::<identifier> and false for every
\* string that lacks one of the two '::' segments.
C12_ValidatesTheFormat ==
    tokenPc = "validated" =>
        /\ tokenInput \in WellFormedInputs => tokenValid
        /\ tokenInput \in SegmentLackingInputs => ~tokenValid

\* C12 witness: an address with capital hex digits was accepted.
C12_Witness ==
    /\ tokenPc = "validated"
    /\ tokenInput = << "0", "x", "a", "F", ":", ":", "s", "u", "i", ":", ":", "S", "U", "I" >>
    /\ tokenValid

-----------------------------------------------------------------------------
(* Numbers of the quote computation                                        *)
(*                                                                         *)
(* A number is kept exactly, as sign, whole part and a reduced fraction    *)
(* n/d below one: [neg, w, n, d] is (-1)^neg * (w + n/d).  The rounding of *)
(* the double-precision operations of JavaScript is left out; the rounding *)
(* of toFixed(8) is not.                                                   *)

RECURSIVE GCD(_, _)
GCD(a, b) == IF b = 0 THEN a ELSE GCD(b, a % b)
LCM(a, b) == (a \div GCD(a, b)) * b

\* w + n/d with the fraction brought below one and reduced
Magnitude(w, n, d) ==
    LET r == n % d
        g == GCD(r, d)
    IN  [w |-> w + (n \div d), n |-> r \div g, d |-> d \div g]

IsZero(x) == x.w = 0 /\ x.n = 0

Signed(neg, m) == [neg |-> neg /\ ~IsZero(m), w |-> m.w, n |-> m.n, d |-> m.d]

\* the number n/d, and the integer k
Ratio(n, d) == Signed(FALSE, Magnitude(0, n, d))
Whole(k) == Ratio(k, 1)

\* |x| + |y|, |x| < |y|, and |x| - |y| where |y| <= |x|
MagnitudeSum(x, y) ==
    LET l == LCM(x.d, y.d)
    IN  Magnitude(x.w + y.w, x.n * (l \div x.d) + y.n * (l \div y.d), l)
MagnitudeLess(x, y) ==
    LET l == LCM(x.d, y.d)
    IN  x.w < y.w \/ (x.w = y.w /\ x.n * (l \div x.d) < y.n * (l \div y.d))
MagnitudeDifference(x, y) ==
    LET l == LCM(x.d, y.d)
        a == x.n * (l \div x.d) - y.n * (l \div y.d)
    IN  IF a >= 0 THEN Magnitude(x.w - y.w, a, l)
        ELSE Magnitude(x.w - y.w - 1, a + l, l)

\* k * (n/d) for an integer k, without forming k * n
WholeTimesFraction(k, n, d) == Magnitude((k \div d) * n, (k % d) * n, d)

\* x + y, -x, x - y, x * y
Plus(x, y) ==
    IF x.neg = y.neg THEN Signed(x.neg, MagnitudeSum(x, y))
    ELSE IF MagnitudeLess(x, y) THEN Signed(y.neg, MagnitudeDifference(y, x))
    ELSE Signed(x.neg, MagnitudeDifference(x, y))
Negated(x) == Signed(~x.neg, x)
Minus(x, y) == Plus(x, Negated(y))
Product(x, y) ==
    Signed(x.neg # y.neg,
           MagnitudeSum(MagnitudeSum(Magnitude(x.w * y.w, 0, 1),
                                     WholeTimesFraction(x.w, y.n, y.d)),
                        MagnitudeSum(WholeTimesFraction(y.w, x.n, x.d),
                                     Magnitude(0, x.n * y.n, x.d * y.d))))

\* x <= y
AtMost(x, y) ==
    IF x.neg /\ ~y.neg THEN TRUE
    ELSE IF ~x.neg /\ y.neg THEN FALSE
    ELSE IF x.neg THEN ~MagnitudeLess(x, y)
    ELSE ~MagnitudeLess(y, x)

\* the first k decimals of r/d (r < d) as an integer, and the remainder left
RECURSIVE Decimals(_, _, _)
Decimals(r, d, k) ==
    IF k = 0 THEN [f |-> 0, r |-> r]
    ELSE LET p == Decimals(r, d, k - 1)
         IN  [f |-> p.f * 10 + ((p.r * 10) \div d), r |-> (p.r * 10) % d]

\* Number.prototype.toFixed(8): the decimal string "-w.ffffffff", kept as its
\* sign, its digits before the point and its eight digits after it.  The
\* magnitude is rounded to the nearest multiple of 1e-8, a tie upwards, and
\* the sign of a negative number stays when its digits are all zero.
ToFixed8(x) ==
    LET p == Decimals(x.n, x.d, 8)
        f == p.f + (IF 2 * p.r >= x.d THEN 1 ELSE 0)
    IN  [neg |-> x.neg, w |-> x.w + (f \div 100000000), f |-> f % 100000000]

\* the number a string made by toFixed(8) denotes
FixedValue(s) == Signed(s.neg, Magnitude(s.w, s.f, 100000000))

\* parseFloat of a decimal literal: digits, then maybe a point and digits
ParseFloatLiteral(s) ==
    LET whole == LeadingDigits(s)
        rest == SubSeq(s, Len(whole) + 1, Len(s))
        decimals == IF rest # << >> /\ Head(rest) = "." THEN LeadingDigits(Tail(rest)) ELSE << >>
    IN  Plus(Whole(DecimalValue(whole)),
             Ratio(DecimalValue(decimals), 10 ^ Len(decimals)))

-----------------------------------------------------------------------------
(* SevenKSwapExecutor.getFallbackQuote *)

\* Token types given as tokenIn and tokenOut
QuoteTokens ==
    { SuiType, UsdcType, << "0", "x", "a", "1", ":", ":", "u", "s", "d", "c", ":", ":", "U", "S", "D", "C" >>, << "0", "x", "b", "2", ":", ":", "b", "t", "c", ":", ":", "B", "T", "C" >>, << "0", "x", "c", "3", ":", ":", "c", "e", "t", "u", "s", ":", ":", "C", "E", "T", "U", "S" >> }

\* Amounts given as amountIn, all positive
QuoteAmounts == { << "1" >>, << "0", ".", "5" >>, << "1", "0", "0", "0" >>, << "2", "5", "0", "0", "0" >> }

\* Slippage tolerances given, in percent: none, 0.1, 0.5, 1 and 3
QuoteSlippages == { Whole(0), Ratio(1, 10), Ratio(1, 2), Whole(1), Whole(3) }

\* Values of Math.random(), in [0, 1)
Randoms == { Whole(0), Ratio(1, 2), Ratio(99, 100) }

\* lines 456-485: the exchange rate of the pair
ExchangeRate(tokenIn, tokenOut, random) ==
    IF \/ Includes(tokenIn, << ":", ":", "s", "u", "i", ":", ":", "S", "U", "I" >>) /\ Includes(tokenOut, << ":", ":", "u", "s", "d", "c", ":", ":" >>)
       \/ /\ Includes(tokenIn, << ":", ":", "s", "u", "i", ":", ":", "S", "U", "I" >>)
          /\ Includes(tokenOut, << "c", "o", "i", "n", ":", ":", "C", "O", "I", "N" >>)
          /\ Includes(tokenOut, << "5", "d", "4", "b", "3", "0", "2" >>)
    THEN Ratio(11, 10)
    ELSE IF \/ Includes(tokenOut, << ":", ":", "s", "u", "i", ":", ":", "S", "U", "I" >>) /\ Includes(tokenIn, << ":", ":", "u", "s", "d", "c", ":", ":" >>)
            \/ /\ Includes(tokenOut, << ":", ":", "s", "u", "i", ":", ":", "S", "U", "I" >>)
               /\ Includes(tokenIn, << "c", "o", "i", "n", ":", ":", "C", "O", "I", "N" >>)
               /\ Includes(tokenIn, << "5", "d", "4", "b", "3", "0", "2" >>)
    THEN Ratio(10, 11)
    ELSE IF /\ Includes(tokenIn, << ":", ":", "b", "t", "c", ":", ":" >>) \/ Includes(tokenIn, << "B", "T", "C" >>)
            /\ Includes(tokenOut, << ":", ":", "u", "s", "d", "c", ":", ":" >>) \/ Includes(tokenOut, << "U", "S", "D", "C" >>)
    THEN Whole(65000)
    ELSE IF /\ Includes(tokenOut, << ":", ":", "b", "t", "c", ":", ":" >>) \/ Includes(tokenOut, << "B", "T", "C" >>)
            /\ Includes(tokenIn, << ":", ":", "u", "s", "d", "c", ":", ":" >>) \/ Includes(tokenIn, << "U", "S", "D", "C" >>)
    THEN Ratio(1, 65000)
    ELSE Plus(Whole(1), Minus(Product(random, Ratio(2, 100)), Ratio(1, 100)))

\* FeeRate of 3% instead of 0.3%
FeeRatePercent == Ratio(3, 100)

\* line 488: const feeRate = 0.003
FeeRate == Ratio(3, 1000)

\* line 491: params.slippage ? params.slippage / 100 : 0.005
SlippageTolerance(slippage) ==
    IF ~IsZero(slippage) THEN Product(slippage, Ratio(1, 100)) ELSE Ratio(5, 1000)

\* lines 446-510: the quote returned for params, Math.random() giving random
FallbackQuote(params, random) ==
    LET inputAmount == ParseFloatLiteral(params.amountIn)
        exchangeRate == ExchangeRate(params.tokenIn, params.tokenOut, random)
        fee == Product(inputAmount, FeeRate)
        outputAmountBeforeSlippage == Minus(Product(inputAmount, exchangeRate), fee)
        slippageTolerance == SlippageTolerance(params.slippage)
        minOutputAmount ==
            Product(outputAmountBeforeSlippage, Minus(Whole(1), slippageTolerance))
    IN  [ returnAmount |-> ToFixed8(outputAmountBeforeSlippage),
          amountOutMin |-> ToFixed8(minOutputAmount),
          estimatedAmount |-> ToFixed8(outputAmountBeforeSlippage),
          minimumAmount |-> ToFixed8(minOutputAmount),
          effectivePrice |-> exchangeRate,
          priceImpact |-> FeeRate,
          feeAmount |-> ToFixed8(fee),
          isFallback |-> TRUE ]

\* main.ts, lines 66-83: the quote demoSevenKSwap asks for, 1 SUI in base
\* units for USDC, and the same for another USDC type
DemoAmount == << "1", "0", "0", "0", "0", "0", "0", "0", "0", "0" >>
DemoQuoteParams ==
    [ tokenIn : {SuiType}, tokenOut : {UsdcType, << "0", "x", "a", "1", ":", ":", "u", "s", "d", "c", ":", ":", "U", "S", "D", "C" >>},
      amountIn : {DemoAmount}, slippage : {Ratio(1, 2)} ]

\* the params of a call: token types in valid format, as getSwapQuote passes
\* them on, a positive amount and a slippage
InitQuote ==
    /\ quoteParams \in [ tokenIn : QuoteTokens, tokenOut : QuoteTokens,
                         amountIn : QuoteAmounts, slippage : QuoteSlippages ]
                       \cup DemoQuoteParams
    /\ quote = << >>
    /\ quotePc = "called"
    /\ OrchOff
    /\ RetryOff
    /\ TokenOff
    /\ SwapOff
    /\ FlashOff
    /\ PriceOff

\* getFallbackQuote(params), lines 441-510.  Nothing in the try block throws
\* for params of these types, so the catch block of lines 511-528 is not
\* entered.
GetFallbackQuote ==
    /\ quotePc = "called"
    /\ \E random \in Randoms : quote' = FallbackQuote(quoteParams, random)
    /\ quotePc' = "returned"
    /\ UNCHANGED quoteParams
    /\ UNCHANGED otherThanQuote

NextQuote == GetFallbackQuote

SpecQuote == InitQuote /\ [][NextQuote]_vars

-----------------------------------------------------------------------------
(* Claims about the fallback quote, checked under SpecQuote *)

\* C9: every fallback quote has amountOutMin <= returnAmount, for any
\* positive input amount, any slippage >= 0 and every pair class.
C9_MinAtMostReturn ==
    quotePc = "returned" =>
        AtMost(FixedValue(quote.amountOutMin), FixedValue(quote.returnAmount))

\* the pair is SUI -> USDC: the output type names ::usdc:: or is the
\* 5d4b302...::coin::COIN type
IsSuiToUsdc(params) ==
    /\ params.tokenIn = SuiType
    /\ params.tokenOut \in {UsdcType, << "0", "x", "a", "1", ":", ":", "u", "s", "d", "c", ":", ":", "U", "S", "D", "C" >>}

\* C17: for SUI -> USDC the fallback estimator uses rate 1.1 and a fee of
\* 0.3% of the input amount: returnAmount is amount * 1.1 - amount * 0.003,
\* that is 1097000000 for the amount 1000000000, which lies within 1% of
\* amount * 1.1 less the fee.
C17_SuiToUsdcQuote ==
    (quotePc = "returned" /\ IsSuiToUsdc(quoteParams))
        => /\ quote.effectivePrice = Ratio(11, 10)
           /\ quote.returnAmount =
                ToFixed8(Product(ParseFloatLiteral(quoteParams.amountIn), Ratio(1097, 1000)))
           /\ quote.feeAmount =
                ToFixed8(Product(ParseFloatLiteral(quoteParams.amountIn), Ratio(3, 1000)))
           /\ quoteParams.amountIn = DemoAmount
                => /\ quote.returnAmount = [neg |-> FALSE, w |-> 1097000000, f |-> 0]
                   /\ quote.feeAmount = [neg |-> FALSE, w |-> 3000000, f |-> 0]

\* C17 witness: the quote of the demo, 1000000000 base units of SUI for the
\* USDC coin type, was returned.
C17_Witness ==
    /\ quotePc = "returned"
    /\ quoteParams.tokenIn = SuiType
    /\ quoteParams.tokenOut = UsdcType
    /\ quoteParams.amountIn = DemoAmount
    /\ quote.returnAmount.w = 1097000000

-----------------------------------------------------------------------------
(* SevenKSwapExecutor: initialize, getSwapQuote, executeSwap, findRoute    *)
(* and addSwapToTransaction                                                *)
(*                                                                         *)
(* One call on a freshly constructed executor.  The aggregator SDK, the    *)
(* RPC node and the environment of initialize() are outside the program:   *)
(* what they answer, and whether the aggregator answers at all, is chosen  *)
(* freely.  swapEvents records what the call has done to the outside.      *)

SwapEntries ==
    {"initialize", "getSwapQuote", "executeSwap", "findRoute", "addSwapToTransaction"}

\* Tokens given as params.inputToken and params.outputToken: a symbol of both
\* tables, a symbol of TOKEN_MAP only, two valid types, and a text no table
\* knows and fixTokenFormat cannot repair
SwapTokens == { << "s", "u", "i" >>, << "B", "T", "C" >>, SuiType, << "0", "x", "a", "1", ":", ":", "u", "s", "d", "c", ":", ":", "U", "S", "D", "C" >>, << "D", "O", "G", "E" >> }

\* What initialize() meets in live mode: createResilientSuiClient() and
\* process.env.PRIVATE_KEY
InitializeOutcomes == {"ok", "noClient", "noPrivateKey", "badPrivateKey"}

\* Answers of getQuote(quoteParams): a rejection, with an Error or with
\* something else, or a resolution with nothing or with a quote
Rejection(isError, message) ==
    [kind |-> "rejects", isError |-> isError, message |-> message,
     hasRoutes |-> FALSE, routes |-> 0, hasAmount |-> FALSE]
EmptyResponse ==
    [kind |-> "empty", isError |-> FALSE, message |-> << >>,
     hasRoutes |-> FALSE, routes |-> 0, hasAmount |-> FALSE]
QuoteResponse(hasRoutes, routes) ==
    [kind |-> "quote", isError |-> FALSE, message |-> << >>,
     hasRoutes |-> hasRoutes, routes |-> routes, hasAmount |-> TRUE]
\* a quote with a route and no returnAmount
QuoteWithoutAmount == [QuoteResponse(TRUE, 1) EXCEPT !.hasAmount = FALSE]

NameResolutionFailure == Rejection(TRUE, << "g", "e", "t", "a", "d", "d", "r", "i", "n", "f", "o", " ", "E", "N", "O", "T", "F", "O", "U", "N", "D", " ", "a", "p", "i" >>)
ConnectionRefused == Rejection(TRUE, << "c", "o", "n", "n", "e", "c", "t", " ", "E", "C", "O", "N", "N", "R", "E", "F", "U", "S", "E", "D" >>)
RequestTimeout == Rejection(TRUE, << "n", "e", "t", "w", "o", "r", "k", " ", "t", "i", "m", "e", "o", "u", "t", " ", "a", "t", ":", " ", "a", "p", "i" >>)
RequestAborted == Rejection(TRUE, << "T", "h", "e", " ", "o", "p", "e", "r", "a", "t", "i", "o", "n", " ", "w", "a", "s", " ", "a", "b", "o", "r", "t", "e", "d" >>)

QuoteResponses ==
    { NameResolutionFailure, ConnectionRefused, RequestTimeout, RequestAborted,
      Rejection(TRUE, << "c", "o", "n", "n", "e", "c", "t", " ", "E", "T", "I", "M", "E", "D", "O", "U", "T" >>),
      Rejection(TRUE, << "H", "T", "T", "P", " ", "5", "0", "0" >>),
      Rejection(FALSE, << "t", "i", "m", "e", "o", "u", "t" >>),
      EmptyResponse,
      QuoteResponse(FALSE, 0), QuoteResponse(TRUE, 0), QuoteResponse(TRUE, 1),
      QuoteWithoutAmount }

\* Answers of buildTx(buildParams) and of signAndExecuteTransactionBlock
BuildOutcomes == {"rejects", "noTransaction", "transactionBlock", "otherTransaction"}
ExecuteOutcomes == {"rejects", "success", "failure", "noStatus"}

Thrown(error) ==
    [kind |-> "error", error |-> error, isFallback |-> FALSE, isMock |-> FALSE]
AggregatorQuote ==
    [kind |-> "quote", error |-> "", isFallback |-> FALSE, isMock |-> FALSE]
\* a fallback quote that never carries the mock tag
FallbackQuoteNeverMock(mock) ==
    [kind |-> "quote", error |-> "", isFallback |-> TRUE, isMock |-> FALSE]

\* lines 510-511 of getFallbackQuote: _isFallback: true, _isMock: this.isMock
FallbackQuoteTagged(mock) ==
    [kind |-> "quote", error |-> "", isFallback |-> TRUE, isMock |-> mock]
Digest ==
    [kind |-> "digest", error |-> "", isFallback |-> FALSE, isMock |-> FALSE]
\* line 594: the simulated digest, mockTx_...
MockDigest ==
    [kind |-> "digest", error |-> "", isFallback |-> FALSE, isMock |-> TRUE]
\* initialize and addSwapToTransaction return nothing
Void ==
    [kind |-> "void", error |-> "", isFallback |-> FALSE, isMock |-> FALSE]
\* findRoute returns true, or false after having logged why
RouteFound ==
    [kind |-> "true", error |-> "", isFallback |-> FALSE, isMock |-> FALSE]
NoRoute(why) ==
    [kind |-> "false", error |-> why, isFallback |-> FALSE, isMock |-> FALSE]

\* lines 319 and 539: (!this.client && !this.isMock) || !this.signerAddress
NeedsInitialize(mock) == (client = "null" /\ ~mock) \/ signerAddress = "null"

\* lines 329-335 and 558-563: a token not in valid format is resolved
ProcessedToken(mock, token) ==
    IF ~ValidateTokenFormat(token) THEN GetProperTokenAddress(mock, token) ELSE token

\* TokenError that looks at the input token only
TokenErrorInputOnly(inputToken, outputToken) ==
    IF ~ValidateTokenFormat(inputToken) THEN "Invalid input token format after processing"
    ELSE ""

\* lines 338-344, 566-571 and 831-836: the error thrown for the processed
\* tokens, "" when both are in valid format
TokenError(inputToken, outputToken) ==
    IF ~ValidateTokenFormat(inputToken) THEN "Invalid input token format after processing"
    ELSE IF ~ValidateTokenFormat(outputToken) THEN "Invalid output token format after processing"
    ELSE ""

\* IsNetworkFailure that does not know 'abort'
IsNetworkFailureWithoutAbort(response) ==
    /\ response.isError
    /\ \/ Includes(response.message, << "E", "N", "O", "T", "F", "O", "U", "N", "D" >>)
       \/ Includes(response.message, << "E", "C", "O", "N", "N", "R", "E", "F", "U", "S", "E", "D" >>)
       \/ Includes(response.message, << "t", "i", "m", "e", "o", "u", "t" >>)

\* lines 384-390: error instanceof Error and its message includes one of
\* 'ENOTFOUND', 'ECONNREFUSED', 'timeout', 'abort'
IsNetworkFailure(response) ==
    /\ response.isError
    /\ \/ Includes(response.message, << "E", "N", "O", "T", "F", "O", "U", "N", "D" >>)
       \/ Includes(response.message, << "E", "C", "O", "N", "N", "R", "E", "F", "U", "S", "E", "D" >>)
       \/ Includes(response.message, << "t", "i", "m", "e", "o", "u", "t" >>)
       \/ Includes(response.message, << "a", "b", "o", "r", "t" >>)

\* StatusIsSuccess that takes a missing status for a success
StatusIsSuccessOrMissing(status) == status \in {"success", "noStatus"}

\* line 683: status !== 'success' is what fails
StatusIsSuccess(status) == status = "success"

InitSwap ==
    /\ isMock \in BOOLEAN
    /\ swapEntry \in SwapEntries
    /\ swapParams \in [inputToken : SwapTokens, outputToken : SwapTokens]
    /\ swapPc = "called"
    /\ swapTokens = NoTokens
    /\ swapResponse = NoResponse
    /\ swapResult = NoResult
    /\ swapEvents = << >>
    /\ quoteTimer = "none"
    /\ txStatus = "none"
    /\ client = "null"
    /\ keypair = "null"
    /\ signerAddress = "null"
    /\ TokenIdle
    /\ OrchOff
    /\ RetryOff
    /\ QuoteOff
    /\ FlashOff
    /\ PriceOff

\* the call ends by throwing, findRoute included
ThrowUncaught(error) ==
    /\ swapPc' = "thrown"
    /\ swapResult' = Thrown(error)

\* the call ends by throwing; what is thrown inside findRoute is caught there
\* (lines 775-783 and 797-800) and findRoute returns false
Throw(error) ==
    IF swapEntry = "findRoute"
    THEN /\ swapPc' = "returned"
         /\ swapResult' = NoRoute(error)
    ELSE /\ swapPc' = "thrown"
         /\ swapResult' = Thrown(error)

\* lines 852-855 of addSwapToTransaction: what getSwapQuote throws is wrapped
QuoteFailure(error) ==
    IF swapEntry = "addSwapToTransaction"
    THEN "Failed to get quote for transaction"
    ELSE error

\* lines 758-764 of findRoute: the parameters of its test quote
TestParams ==
    [inputToken |-> ProcessedToken(isMock, swapParams.inputToken),
     outputToken |-> ProcessedToken(isMock, swapParams.outputToken)]

\* lines 711-770 of findRoute: in mock mode the answer; in live mode the
\* tokens are processed and checked, and getSwapQuote is called with
\* testParams
FindRoute ==
    /\ swapEntry = "findRoute"
    /\ swapPc = "called"
    /\ IF isMock
       THEN \E mockInputToken \in {GetProperTokenAddress(isMock, swapParams.inputToken)},
               mockOutputToken \in {GetProperTokenAddress(isMock, swapParams.outputToken)} :
                /\ swapPc' = "returned"
                /\ swapResult' =
                     IF ValidateTokenFormat(mockInputToken)
                          /\ ValidateTokenFormat(mockOutputToken)
                     THEN RouteFound
                     ELSE NoRoute("Mock: Invalid token format for route check")
                /\ UNCHANGED swapParams
       ELSE \E testParams \in {TestParams} :
            IF ~ValidateTokenFormat(testParams.inputToken)
            THEN /\ swapPc' = "returned"
                 /\ swapResult' = NoRoute("Invalid input token format")
                 /\ UNCHANGED swapParams
            ELSE IF ~ValidateTokenFormat(testParams.outputToken)
            THEN /\ swapPc' = "returned"
                 /\ swapResult' = NoRoute("Invalid output token format")
                 /\ UNCHANGED swapParams
            ELSE /\ swapPc' = "testQuote"
                 /\ swapParams' = testParams
                 /\ UNCHANGED swapResult
    /\ UNCHANGED <<swapEntry, swapTokens, swapResponse, swapEvents,
                   quoteTimer, txStatus, client, keypair, signerAddress>>
    /\ UNCHANGED otherThanSwap

\* initialize() has succeeded: the call of initialize returns, the other
\* operations go on
Initialized ==
    IF swapEntry = "initialize"
    THEN /\ swapPc' = "returned"
         /\ swapResult' = Void
    ELSE /\ swapPc' = "initialized"
         /\ UNCHANGED swapResult

\* initialize(), lines 114-236, called itself or as the first step of
\* getSwapQuote (lines 319-321, for findRoute the test quote of line 774),
\* executeSwap (lines 539-541) and addSwapToTransaction (lines 810-812)
SwapInitialize ==
    /\ swapPc = IF swapEntry = "findRoute" THEN "testQuote" ELSE "called"
    /\ IF swapEntry # "initialize" /\ ~NeedsInitialize(isMock)
       THEN /\ swapPc' = "initialized"
            /\ UNCHANGED <<client, keypair, signerAddress, swapEvents, swapResult>>
       ELSE IF isMock
       THEN \* no client, no health check, the keypair of MOCK_MNEMONIC
            /\ client' = "null"
            /\ keypair' = "keypair"
            /\ signerAddress' = "address"
            /\ Initialized
            /\ UNCHANGED swapEvents
       ELSE \E outcome \in InitializeOutcomes :
            IF outcome = "noClient"
            THEN /\ swapEvents' = Append(swapEvents, "createClient")
                 /\ Throw("Failed to create SuiClient")
                 /\ UNCHANGED <<client, keypair, signerAddress>>
            ELSE /\ swapEvents' = swapEvents \o << "createClient", "healthCheck" >>
                 /\ client' = "client"
                 /\ IF outcome = "ok"
                    THEN /\ keypair' = "keypair"
                         /\ signerAddress' = "address"
                         /\ Initialized
                    ELSE /\ Throw(IF outcome = "noPrivateKey"
                                  THEN "No private key found in environment"
                                  ELSE "Invalid private key format")
                         /\ UNCHANGED <<keypair, signerAddress>>
    /\ UNCHANGED <<swapEntry, swapParams, swapTokens, swapResponse, quoteTimer, txStatus>>
    /\ UNCHANGED otherThanSwap

\* lines 323-344 of getSwapQuote (for findRoute: of its test quote), lines
\* 544-571 of executeSwap, lines 814-836 of addSwapToTransaction: the tokens
\* are processed and checked
ResolveTokens ==
    /\ swapPc = "initialized"
    /\ IF swapEntry = "executeSwap" /\ keypair = "null" /\ ~isMock
       THEN /\ Throw("Keypair not initialized for non-mock execution")
            /\ UNCHANGED swapTokens
       ELSE IF swapEntry \in {"executeSwap", "addSwapToTransaction"}
                 /\ signerAddress = "null"
       THEN /\ Throw("Signer address not initialized")
            /\ UNCHANGED swapTokens
       ELSE \E inputToken \in {ProcessedToken(isMock, swapParams.inputToken)},
               outputToken \in {ProcessedToken(isMock, swapParams.outputToken)} :
                /\ swapTokens' = [inputToken |-> inputToken, outputToken |-> outputToken]
                /\ IF TokenError(inputToken, outputToken) # ""
                   THEN Throw(TokenError(inputToken, outputToken))
                   ELSE /\ swapPc' = "resolved"
                        /\ UNCHANGED swapResult
    /\ UNCHANGED <<swapEntry, swapParams, swapResponse, swapEvents, quoteTimer,
                   txStatus, client, keypair, signerAddress>>
    /\ UNCHANGED otherThanSwap

\* what follows a quote obtained, one with routes: getSwapQuote returns it;
\* findRoute (lines 786-796) answers true when it has a returnAmount too;
\* executeSwap (line 589) and addSwapToTransaction (line 851) go on with it
QuoteObtained(q, hasAmount) ==
    IF swapEntry = "getSwapQuote"
    THEN /\ swapPc' = "returned"
         /\ swapResult' = q
    ELSE IF swapEntry = "findRoute"
    THEN /\ swapPc' = "returned"
         /\ swapResult' = IF hasAmount THEN RouteFound ELSE NoRoute("No route found")
    ELSE /\ swapPc' = "quoted"
         /\ swapResult' = q

\* lines 346-378 of getSwapQuote (called by executeSwap at line 589 with the
\* processed tokens): the mock quote, or the request to the aggregator and
\* the 5 s timer
RequestQuote ==
    /\ swapPc = "resolved"
    /\ IF isMock
       THEN /\ swapEvents' = Append(swapEvents, "getFallbackQuote")
            /\ QuoteObtained(FallbackQuoteTagged(isMock), TRUE)
            /\ UNCHANGED quoteTimer
       ELSE /\ swapEvents' = Append(swapEvents, "getQuote")
            /\ quoteTimer' = "armed"
            /\ swapPc' = "awaitQuote"
            /\ UNCHANGED swapResult
    /\ UNCHANGED <<swapEntry, swapParams, swapTokens, swapResponse, txStatus,
                   client, keypair, signerAddress>>
    /\ UNCHANGED otherThanSwap

\* line 374: the timer fires and calls controller.abort(); the signal of the
\* controller was given to nobody, so the pending getQuote goes on
TimeoutFires ==
    /\ swapPc = "awaitQuote"
    /\ quoteTimer = "armed"
    /\ quoteTimer' = "fired"
    /\ swapEvents' = Append(swapEvents, "abort")
    /\ UNCHANGED <<swapEntry, swapParams, swapPc, swapTokens, swapResponse, swapResult,
                   txStatus, client, keypair, signerAddress>>
    /\ UNCHANGED otherThanSwap

\* lines 378-431: getQuote has settled
AggregatorAnswers(response) ==
    /\ swapPc = "awaitQuote"
    /\ swapResponse' = response
    /\ quoteTimer' = IF quoteTimer = "armed" THEN "cleared" ELSE quoteTimer
    /\ IF response.kind = "rejects"
       THEN IF IsNetworkFailure(response)
            THEN /\ swapEvents' = Append(swapEvents, "getFallbackQuote")
                 /\ QuoteObtained(FallbackQuoteTagged(isMock), TRUE)
            ELSE /\ Throw(QuoteFailure("7K Protocol getQuote failed"))
                 /\ UNCHANGED swapEvents
       ELSE IF response.kind = "empty"
            THEN /\ swapEvents' = Append(swapEvents, "getFallbackQuote")
                 /\ QuoteObtained(FallbackQuoteTagged(isMock), TRUE)
       ELSE IF ~response.hasRoutes \/ response.routes = 0
            THEN /\ Throw(QuoteFailure("No swap routes found"))
                 /\ UNCHANGED swapEvents
       ELSE /\ QuoteObtained(AggregatorQuote, response.hasAmount)
            /\ UNCHANGED swapEvents
    /\ UNCHANGED <<swapEntry, swapParams, swapTokens, txStatus, client, keypair,
                   signerAddress>>
    /\ UNCHANGED otherThanSwap

\* lines 591-639 of executeSwap: the mock digest, or buildTx is called; lines
\* 876-892 of addSwapToTransaction: the swap is simulated, or buildTx is called
ContinueExecute ==
    /\ swapPc = "quoted"
    /\ IF isMock
       THEN /\ swapPc' = "returned"
            /\ swapResult' = IF swapEntry = "executeSwap" THEN MockDigest ELSE Void
            /\ UNCHANGED swapEvents
       ELSE IF swapEntry = "addSwapToTransaction"
       THEN /\ swapEvents' = Append(swapEvents, "buildTx")
            /\ swapPc' = "awaitBuild"
            /\ UNCHANGED swapResult
       ELSE IF client = "null"
       THEN /\ Throw("SuiClient is not initialized for non-mock execution.")
            /\ UNCHANGED swapEvents
       ELSE IF keypair = "null"
       THEN /\ Throw("Keypair is not initialized for non-mock execution.")
            /\ UNCHANGED swapEvents
       ELSE /\ swapEvents' = Append(swapEvents, "buildTx")
            /\ swapPc' = "awaitBuild"
            /\ UNCHANGED swapResult
    /\ UNCHANGED <<swapEntry, swapParams, swapTokens, swapResponse, quoteTimer,
                   txStatus, client, keypair, signerAddress>>
    /\ UNCHANGED otherThanSwap

\* lines 639-672: buildTx has settled; the transaction is submitted. Lines
\* 892-912 of addSwapToTransaction: nothing is done with the transaction
BuildAnswers(outcome) ==
    /\ swapPc = "awaitBuild"
    /\ IF swapEntry = "addSwapToTransaction"
       THEN IF outcome \in {"rejects", "noTransaction"}
            THEN /\ Throw("Failed to add 7K swap to transaction")
                 /\ UNCHANGED swapEvents
            ELSE /\ swapPc' = "returned"
                 /\ swapResult' = Void
                 /\ UNCHANGED swapEvents
       ELSE IF outcome = "rejects"
       THEN /\ Throw("7K Protocol buildTx failed")
            /\ UNCHANGED swapEvents
       ELSE IF outcome = "noTransaction"
       THEN /\ Throw("Failed to build transaction: Empty transaction data received")
            /\ UNCHANGED swapEvents
       ELSE /\ swapEvents' = Append(swapEvents,
                                    IF outcome = "transactionBlock"
                                    THEN "signAndExecuteTransactionBlock"
                                    ELSE "signAndExecuteTransactionBlock(new TransactionBlock())")
            /\ swapPc' = "awaitExecute"
            /\ UNCHANGED swapResult
    /\ UNCHANGED <<swapEntry, swapParams, swapTokens, swapResponse, quoteTimer,
                   txStatus, client, keypair, signerAddress>>
    /\ UNCHANGED otherThanSwap

\* lines 663-698: signAndExecuteTransactionBlock has settled
ExecuteAnswers(outcome) ==
    /\ swapPc = "awaitExecute"
    /\ txStatus' = outcome
    /\ IF outcome = "rejects"
       THEN Throw("Failed to execute transaction")
       ELSE IF ~StatusIsSuccess(outcome)
       THEN Throw("Swap transaction failed with status")
       ELSE /\ swapPc' = "returned"
            /\ swapResult' = Digest
    /\ UNCHANGED <<swapEntry, swapParams, swapTokens, swapResponse, swapEvents,
                   quoteTimer, client, keypair, signerAddress>>
    /\ UNCHANGED otherThanSwap

NextSwap ==
    \/ FindRoute
    \/ SwapInitialize
    \/ ResolveTokens
    \/ RequestQuote
    \/ TimeoutFires
    \/ \E response \in QuoteResponses : AggregatorAnswers(response)
    \/ ContinueExecute
    \/ \E outcome \in BuildOutcomes : BuildAnswers(outcome)
    \/ \E outcome \in ExecuteOutcomes : ExecuteAnswers(outcome)

SpecSwap == InitSwap /\ [][NextSwap]_vars

\* The steps of the program itself and the timer are taken when they can be;
\* no answer of the aggregator, of buildTx or of the node is promised.
SpecSwapFair ==
    /\ SpecSwap
    /\ WF_vars(FindRoute)
    /\ WF_vars(SwapInitialize)
    /\ WF_vars(ResolveTokens)
    /\ WF_vars(RequestQuote)
    /\ WF_vars(TimeoutFires)
    /\ WF_vars(ContinueExecute)

-----------------------------------------------------------------------------
(* Claims about the operations of SevenKSwapExecutor, checked under SpecSwap *)

Settled == swapPc \in {"returned", "thrown"}
QuoteOrTransactionEvents ==
    {"getQuote", "getFallbackQuote", "buildTx", "signAndExecuteTransactionBlock",
     "signAndExecuteTransactionBlock(new TransactionBlock())"}

\* C13: when the input or the output token is not in valid format after
\* resolution, getSwapQuote and executeSwap fail with the invalid-token-format
\* error of that token, and until then no quote was requested or generated
\* and no transaction built or submitted.
C13_InvalidTokenFailsFirst ==
    (swapTokens # NoTokens
       /\ (~ValidateTokenFormat(swapTokens.inputToken)
             \/ ~ValidateTokenFormat(swapTokens.outputToken)))
        => /\ swapPc = "thrown"
           /\ swapResult.kind = "error"
           /\ swapResult.error =
                IF ~ValidateTokenFormat(swapTokens.inputToken)
                THEN "Invalid input token format after processing"
                ELSE "Invalid output token format after processing"
           /\ \A i \in 1..Len(swapEvents) : swapEvents[i] \notin QuoteOrTransactionEvents

\* C13 witness: executeSwap in live mode, the input symbol resolved, the
\* output DOGE not: failed with the output token's error.
C13_Witness ==
    /\ swapPc = "thrown"
    /\ swapEntry = "executeSwap"
    /\ ~isMock
    /\ swapParams.inputToken = << "B", "T", "C" >>
    /\ swapTokens = [inputToken |-> BtcType, outputToken |-> << "D", "O", "G", "E" >>]
    /\ swapResult.error = "Invalid output token format after processing"

C15_QuoteRequestCompletes ==
    (~isMock /\ swapEntry = "getSwapQuote" /\ swapPc = "awaitQuote") ~> Settled

\* C16: in live mode executeSwap returns a digest only if the status of the
\* executed transaction's effects is 'success'; for every other status, a
\* missing one included, it throws the swap-failure error and returns no
\* digest.
C16_DigestOnlyOnSuccess ==
    (~isMock /\ swapEntry = "executeSwap")
        => /\ (swapPc = "returned" /\ swapResult.kind = "digest") => txStatus = "success"
           /\ txStatus = "success" => (swapPc = "returned" /\ swapResult.kind = "digest")
           /\ txStatus \in {"failure", "noStatus"}
                => /\ swapPc = "thrown"
                   /\ swapResult.error = "Swap transaction failed with status"

\* C16 witness: the node answered without a status and executeSwap threw.
C16_Witness ==
    /\ ~isMock
    /\ swapEntry = "executeSwap"
    /\ txStatus = "noStatus"
    /\ swapPc = "thrown"
    /\ swapResult.error = "Swap transaction failed with status"

ReturnedFalse == swapPc = "returned" /\ swapResult.kind = "false"
RouteTokens ==
    IF isMock
    THEN [inputToken |-> GetProperTokenAddress(isMock, swapParams.inputToken),
          outputToken |-> GetProperTokenAddress(isMock, swapParams.outputToken)]
    ELSE TestParams

\* C23: findRoute never throws; it returns true or false. It returns false
\* when a token cannot be resolved to a valid format, when the quote step
\* fails (initialize() of the test quote fails, or the quote request is
\* rejected with something that is not a network failure) and when no route
\* is found (the answer has no routes, or no returnAmount).
C23_FindRouteNeverThrows ==
    swapEntry = "findRoute"
        => /\ swapPc # "thrown"
           /\ swapResult.kind \in {"none", "true", "false"}
           /\ swapPc = "returned" <=> swapResult.kind \in {"true", "false"}
           /\ (swapPc # "called"
                 /\ (~ValidateTokenFormat(RouteTokens.inputToken)
                       \/ ~ValidateTokenFormat(RouteTokens.outputToken)))
                => /\ ReturnedFalse
                   /\ swapEvents = << >>
           /\ (swapPc \notin {"called", "testQuote"} /\ ~isMock /\ signerAddress = "null")
                => ReturnedFalse
           /\ (swapResponse.kind = "rejects" /\ ~IsNetworkFailure(swapResponse))
                => ReturnedFalse
           /\ swapResponse \in { QuoteResponse(FALSE, 0), QuoteResponse(TRUE, 0),
                                  QuoteWithoutAmount }
                => ReturnedFalse

\* C23 witness: in live mode the aggregator answered findRoute's test quote
\* with empty routes, getSwapQuote threw and findRoute returned false.
C23_Witness ==
    /\ swapEntry = "findRoute"
    /\ ~isMock
    /\ swapResponse = QuoteResponse(TRUE, 0)
    /\ swapPc = "returned"
    /\ swapResult = NoRoute("No swap routes found")

OutsideCalls ==
    {"getQuote", "buildTx", "healthCheck", "signAndExecuteTransactionBlock",
     "signAndExecuteTransactionBlock(new TransactionBlock())"}

\* C24: in mock mode no operation of the executor (initialize, getSwapQuote,
\* findRoute, executeSwap, addSwapToTransaction) calls getQuote, buildTx, the
\* health endpoint or signAndExecuteTransactionBlock; a quote returned by
\* getSwapQuote is tagged _isFallback and _isMock, and what executeSwap
\* returns is the simulated digest.
C24_MockCallsNothingOutside ==
    isMock
        => /\ \A i \in 1..Len(swapEvents) : swapEvents[i] \notin OutsideCalls
           /\ client = "null"
           /\ (swapEntry = "getSwapQuote" /\ swapPc = "returned")
                => /\ swapResult.kind = "quote"
                   /\ swapResult.isFallback
                   /\ swapResult.isMock
           /\ (swapEntry = "executeSwap" /\ swapPc = "returned")
                => swapResult = MockDigest
           /\ (swapEntry \in {"getSwapQuote", "executeSwap", "addSwapToTransaction"}
                 /\ swapPc = "returned")
                => swapEvents = << "getFallbackQuote" >>
           /\ (swapEntry \in {"initialize", "findRoute"}) => swapEvents = << >>

\* C24 witness: in mock mode executeSwap returned the simulated digest after
\* the mock quote, and nothing else was done.
C24_Witness ==
    /\ isMock
    /\ swapEntry = "executeSwap"
    /\ swapPc = "returned"
    /\ swapResult = MockDigest
    /\ swapEvents = << "getFallbackQuote" >>

-----------------------------------------------------------------------------
(* executeNaviFlashloan (src/src/examples/simpleNaviFlashloan.ts) and      *)
(* executeSuilendFlashloan (src/src/examples/simpleSuilendFlashloan.ts):   *)
(* one call of either. The SDKs, the build of the transaction and the node *)
(* are outside the program: what they answer is not determined.            *)

FlashEntries == {"executeNaviFlashloan", "executeSuilendFlashloan"}

\* process.env.SUI_MNEMONIC
FlashMnemonics == {Unset, << >>, << "test test test" >>}

\* process.env.GAS_BUDGET
FlashGasBudgets == {Unset, << "1", "0", "0" >>, << "a", "b", "c" >>}

\* the synchronous SDK call that throws, if one does: the construction of the
\* client or keypair, the borrow step or the repay step
SdkThrows == {"none", "client", "borrow", "repay"}

\* suilendClient.findReserveArrayIndex(coinType)
ReserveArrayIndexes == {-1, 0}

\* Navi line 51 and SuiLend line 48: !mnemonic; Navi line 80: process.env.GAS_BUDGET ?
IsUnsetOrEmpty(value) == value = Unset \/ value = << >>

\* Navi line 80 and SuiLend line 74
GasBudget(value) ==
    IF IsUnsetOrEmpty(value) THEN Number(50000000) ELSE ParseInt10(value)

\* a value thrown or a promise rejected, with an Error or with something else
FlashError(isError, message) ==
    [kind |-> "rejects", isError |-> isError, message |-> message, status |-> ""]
\* a promise resolved; status is effects.status.status of a transaction result
FlashResolved(status) ==
    [kind |-> "resolves", isError |-> FALSE, message |-> "", status |-> status]

SdkError == FlashError(TRUE, "SDK failure")

\* SuilendClient.initialize(...)
SuilendInitializeOutcomes ==
    {FlashResolved(""), FlashError(TRUE, "Lending market not found")}

\* txb.build({ client: suiClient })
TransactionBuildOutcomes ==
    {FlashResolved(""), FlashError(TRUE, "Dry run failed")}

\* suiClient.signAndExecuteTransactionBlock(...)
SubmitOutcomes ==
    { FlashResolved("success"), FlashResolved("failure"), FlashResolved("Unknown"),
      FlashError(TRUE, "Transaction execution failed"),
      FlashError(TRUE, "Insufficient gas"),
      FlashError(FALSE, "rejected") }

\* what the call of the function came to
Returned(answer) ==
    [kind |-> "result", isError |-> FALSE, message |-> "", status |-> answer.status]
ReturnedUndefined ==
    [kind |-> "undefined", isError |-> FALSE, message |-> "", status |-> ""]
\* rethrown wrapped in a new Error
RethrowWrapped(error) ==
    [kind |-> "error", isError |-> TRUE, message |-> "Flashloan failed", status |-> ""]
\* Navi line 177 and SuiLend line 195: throw error
Rethrow(error) ==
    [kind |-> "error", isError |-> error.isError, message |-> error.message, status |-> ""]

\* Navi lines 173-176 and SuiLend lines 191-194: logger.error(..., { message:
\* error.message, ... }); a value that is no Error has no message
ErrorLogged(error) ==
    [level |-> "error", message |-> IF error.isError THEN error.message ELSE "undefined"]
\* Navi lines 52 and 65, SuiLend lines 49 and 110: logger.error("Error: ...")
ProblemLogged(text) == [level |-> "error", message |-> text]

\* new TransactionBlock() / new Transaction()
NewTransaction == [sender |-> FALSE, commands |-> << >>, gasBudget |-> Number(0)]

\* SuiLend line 105: suilendClient.createObligation(txb)
CreateObligation(commands) ==
    Append(commands, [kind |-> "createObligation", consumes |-> 0])

\* Navi lines 110-114: flashloan(txb, pool, amount); SuiLend lines 119-129:
\* txb.moveCall({ target: ...::lending_market::borrow, ... })
Flashloan(commands) ==
    Append(commands, [kind |-> "borrow", consumes |-> 0])

\* a repay step that takes nothing from the borrow step
RepayFlashLoanWithoutReceipt(commands, receipt) ==
    Append(commands, [kind |-> "repay", consumes |-> 0])

\* Navi lines 125-130: repayFlashLoan(txb, pool, receipt, borrowedBalance);
\* SuiLend lines 138-149: the moveCall of ...::lending_market::repay with
\* borrowResult among its arguments. receipt is the place of the borrow step.
RepayFlashLoan(commands, receipt) ==
    Append(commands, [kind |-> "repay", consumes |-> receipt])

InitFlash ==
    /\ flashEntry \in FlashEntries
    /\ flashEnv \in [ mnemonic : FlashMnemonics, gasBudget : FlashGasBudgets,
                      poolFound : BOOLEAN, reserveArrayIndex : ReserveArrayIndexes,
                      sdkThrows : SdkThrows ]
    /\ flashPc = "called"
    /\ txb = NewTransaction
    /\ builtTx = << >>
    /\ flashEvents = << >>
    /\ flashAnswer = FlashResolved("")
    /\ flashResult = ReturnedUndefined
    /\ flashLog = << >>
    /\ OrchOff
    /\ RetryOff
    /\ TokenOff
    /\ QuoteOff
    /\ SwapOff
    /\ PriceOff

\* return; after an error message was logged
ReturnNothing(text) ==
    /\ flashPc' = "settled"
    /\ flashResult' = ReturnedUndefined
    /\ flashLog' = Append(flashLog, ProblemLogged(text))

\* Navi lines 171-178 and SuiLend lines 189-196: catch (error) { logger.error(...);
\* throw error }
FlashCatch(error) ==
    /\ flashPc' = "settled"
    /\ flashResult' = Rethrow(error)
    /\ flashLog' = Append(flashLog, ErrorLogged(error))

\* Navi lines 105-141 and SuiLend lines 115-159: the borrow step, the repay
\* step, the gas budget and the call of txb.build, on the commands the
\* transaction has so far
BorrowRepayBuild(commands) ==
    LET borrowed == Flashloan(commands)
        repaid == RepayFlashLoan(borrowed, Len(borrowed))
    IN  IF flashEnv.sdkThrows = "borrow"
        THEN /\ txb' = [sender |-> TRUE, commands |-> commands, gasBudget |-> Number(0)]
             /\ flashEvents' = flashEvents
             /\ FlashCatch(SdkError)
        ELSE IF flashEnv.sdkThrows = "repay"
        THEN /\ txb' = [sender |-> TRUE, commands |-> borrowed, gasBudget |-> Number(0)]
             /\ flashEvents' = flashEvents \o << "borrow" >>
             /\ FlashCatch(SdkError)
        ELSE /\ txb' = [sender |-> TRUE, commands |-> repaid,
                        gasBudget |-> GasBudget(flashEnv.gasBudget)]
             /\ flashEvents' = flashEvents \o << "borrow", "repay", "build" >>
             /\ flashPc' = "awaitBuild"
             /\ UNCHANGED <<flashResult, flashLog>>

\* executeNaviFlashloan, lines 33-141: up to await txb.build(...)
NaviFlashloan ==
    /\ flashEntry = "executeNaviFlashloan"
    /\ flashPc = "called"
    /\ IF IsUnsetOrEmpty(flashEnv.mnemonic)
       THEN /\ ReturnNothing("SUI_MNEMONIC environment variable is not set")
            /\ UNCHANGED <<txb, flashEvents>>
       ELSE IF ~flashEnv.poolFound
       THEN /\ ReturnNothing("Pool configuration not found")
            /\ UNCHANGED <<txb, flashEvents>>
       ELSE IF flashEnv.sdkThrows = "client"
       THEN /\ FlashCatch(SdkError)
            /\ UNCHANGED <<txb, flashEvents>>
       ELSE BorrowRepayBuild(<< >>)
    /\ UNCHANGED <<flashEntry, flashEnv, builtTx, flashAnswer>>
    /\ UNCHANGED otherThanFlash

\* executeSuilendFlashloan, lines 30-94: up to await SuilendClient.initialize(...)
SuilendFlashloan ==
    /\ flashEntry = "executeSuilendFlashloan"
    /\ flashPc = "called"
    /\ IF IsUnsetOrEmpty(flashEnv.mnemonic)
       THEN /\ ReturnNothing("SUI_MNEMONIC environment variable is not set")
            /\ UNCHANGED flashEvents
       ELSE IF flashEnv.sdkThrows = "client"
       THEN /\ FlashCatch(SdkError)
            /\ UNCHANGED flashEvents
       ELSE /\ flashPc' = "awaitInitialize"
            /\ flashEvents' = Append(flashEvents, "SuilendClient.initialize")
            /\ UNCHANGED <<flashResult, flashLog>>
    /\ UNCHANGED <<flashEntry, flashEnv, txb, builtTx, flashAnswer>>
    /\ UNCHANGED otherThanFlash

\* executeSuilendFlashloan, lines 90-159: SuilendClient.initialize settles; the
\* obligation, the reserve index, then the borrow and repay steps and the
\* call of txb.build
SuilendInitialized(outcome) ==
    /\ flashPc = "awaitInitialize"
    /\ IF outcome.kind = "rejects"
       THEN /\ FlashCatch(outcome)
            /\ UNCHANGED <<txb, flashEvents>>
       ELSE IF flashEnv.reserveArrayIndex = -1
       THEN /\ txb' = [sender |-> TRUE, commands |-> CreateObligation(<< >>),
                       gasBudget |-> Number(0)]
            /\ ReturnNothing("Reserve not found in the lending market")
            /\ UNCHANGED flashEvents
       ELSE BorrowRepayBuild(CreateObligation(<< >>))
    /\ UNCHANGED <<flashEntry, flashEnv, builtTx, flashAnswer>>
    /\ UNCHANGED otherThanFlash

\* Navi lines 141-153 and SuiLend lines 159-171: txb.build settles; the built
\* transaction is handed to signAndExecuteTransactionBlock
TransactionBuilt(outcome) ==
    /\ flashPc = "awaitBuild"
    /\ IF outcome.kind = "rejects"
       THEN /\ FlashCatch(outcome)
            /\ UNCHANGED <<builtTx, flashEvents>>
       ELSE /\ builtTx' = txb.commands
            /\ flashEvents' = Append(flashEvents, "signAndExecuteTransactionBlock")
            /\ flashPc' = "awaitSubmit"
            /\ UNCHANGED <<flashResult, flashLog>>
    /\ UNCHANGED <<flashEntry, flashEnv, txb, flashAnswer>>
    /\ UNCHANGED otherThanFlash

\* Navi lines 144-178 and SuiLend lines 162-196: signAndExecuteTransactionBlock
\* settles; the result is logged and returned, a rejection is caught
TransactionSubmitted(outcome) ==
    /\ flashPc = "awaitSubmit"
    /\ flashAnswer' = outcome
    /\ IF outcome.kind = "rejects"
       THEN FlashCatch(outcome)
       ELSE /\ flashPc' = "settled"
            /\ flashResult' = Returned(outcome)
            /\ flashLog' = flashLog
    /\ UNCHANGED <<flashEntry, flashEnv, txb, builtTx, flashEvents>>
    /\ UNCHANGED otherThanFlash

NextFlash ==
    \/ NaviFlashloan
    \/ SuilendFlashloan
    \/ \E outcome \in SuilendInitializeOutcomes : SuilendInitialized(outcome)
    \/ \E outcome \in TransactionBuildOutcomes : TransactionBuilt(outcome)
    \/ \E outcome \in SubmitOutcomes : TransactionSubmitted(outcome)

SpecFlash == InitFlash /\ [][NextFlash]_vars

-----------------------------------------------------------------------------
(* Claims about the flash-loan examples, checked under SpecFlash *)

\* the place of the first event e among the calls made, 0 when it was not made
FlashEventAt(e) ==
    IF \E i \in 1..Len(flashEvents) : flashEvents[i] = e
    THEN CHOOSE i \in 1..Len(flashEvents) :
            /\ flashEvents[i] = e
            /\ \A j \in 1..(i - 1) : flashEvents[j] # e
    ELSE 0
FlashSubmitted == FlashEventAt("signAndExecuteTransactionBlock") > 0

\* C18: whenever executeNaviFlashloan or executeSuilendFlashloan submits a
\* transaction, the borrow step was added first, the repay step that consumes
\* what the borrow step gave was added after it, and only then was the
\* transaction built and submitted: every borrow step of a submitted
\* transaction has a later repay step consuming it.
C18_BorrowRepaidBeforeSubmit ==
    FlashSubmitted =>
        /\ 0 < FlashEventAt("borrow")
        /\ FlashEventAt("borrow") < FlashEventAt("repay")
        /\ FlashEventAt("repay") < FlashEventAt("build")
        /\ FlashEventAt("build") < FlashEventAt("signAndExecuteTransactionBlock")
        /\ \E i \in 1..Len(builtTx) : builtTx[i].kind = "borrow"
        /\ \A i \in 1..Len(builtTx) :
             builtTx[i].kind = "borrow"
                => \E j \in (i + 1)..Len(builtTx) :
                      /\ builtTx[j].kind = "repay"
                      /\ builtTx[j].consumes = i

\* C18 witness: executeSuilendFlashloan submitted its transaction of an
\* obligation, a borrow step and a repay step.
C18_Witness ==
    /\ flashEntry = "executeSuilendFlashloan"
    /\ FlashSubmitted
    /\ Len(builtTx) = 3
    /\ builtTx[2].kind = "borrow"
    /\ builtTx[3].kind = "repay"

\* C19: when signAndExecuteTransactionBlock rejects, the function rejects with
\* that same error after logging it and returns no result; it returns a
\* result only when the submission succeeded.
C19_SubmitFailurePropagates ==
    /\ (flashPc = "settled" /\ flashAnswer.kind = "rejects")
          => /\ flashResult.kind = "error"
             /\ flashResult.isError = flashAnswer.isError
             /\ flashResult.message = flashAnswer.message
             /\ flashLog # << >>
             /\ flashLog[Len(flashLog)].level = "error"
             /\ flashAnswer.isError
                   => flashLog[Len(flashLog)].message = flashAnswer.message
    /\ flashResult.kind = "result"
          => /\ FlashSubmitted
             /\ flashAnswer.kind = "resolves"
             /\ flashResult.status = flashAnswer.status

\* C19 witness: the submission of executeNaviFlashloan was rejected with
\* Error('Transaction execution failed') and the call rejected with it.
C19_Witness ==
    /\ flashEntry = "executeNaviFlashloan"
    /\ flashPc = "settled"
    /\ flashAnswer = FlashError(TRUE, "Transaction execution failed")
    /\ flashResult.kind = "error"
    /\ flashResult.message = "Transaction execution failed"

-----------------------------------------------------------------------------
(* SuiLendExecutor (src/unnamed/part_002): initialize, getPriceInfo and    *)
(* canTradePair called one after the other on one executor, each call      *)
(* awaited before the next. getFallbackPriceInfo runs its estimator under  *)
(* withRetry: the actions WithRetry, OperationSettled and DelayElapsed      *)
(* above, with the estimator as the operation.                             *)

\* Bound: the number of calls made on the executor
MaxPriceCalls == 2

\* process.env.PRIVATE_KEY: not set, empty, in none of the three formats, in
\* one of them and refused by the key library, or a good key
PrivateKeys == {"unset", "empty", "unrecognized", "refused", "good"}

\* Tokens given to getPriceInfo and canTradePair: a valid type, a symbol of
\* TOKEN_MAP, and a text no table knows and fixTokenFormat cannot repair
PriceTokens == { SuiType, << "u", "s", "d", "c" >>, << "D", "O", "G", "E" >> }

\* params.amount
PriceAmounts == { << "1", "0", "0" >>, << "1", "2", "a", "b", "c" >>, << "a", "b", "c" >> }

PriceParams ==
    [inputToken : PriceTokens, outputToken : PriceTokens, amount : PriceAmounts,
     breaks : BOOLEAN]

\* isNaN(parseFloat(amount)), line 469-470: after leading white space and a
\* sign there is no digit, no point followed by a digit, and no 'Infinity'
ParseFloatIsNaN(amount) ==
    LET s == TrimStart(amount)
        unsigned == IF s # << >> /\ Head(s) \in {"+", "-"} THEN Tail(s) ELSE s
    IN  /\ LeadingDigits(unsigned) = << >>
        /\ ~(unsigned # << >> /\ Head(unsigned) = "."
               /\ LeadingDigits(Tail(unsigned)) # << >>)
        /\ ~(Len(unsigned) >= 8 /\ SubSeq(unsigned, 1, 8) = << "I", "n", "f", "i", "n", "i", "t", "y" >>)

\* lines 183-229 of initialize: the class of the error thrown for the key, ""
\* when the keypair is made
InitializeError(key) ==
    IF key \in {"unset", "empty"} THEN "SuiLendExecutorError"
    ELSE IF key \in {"unrecognized", "refused"} THEN "KeypairInitializationError"
    ELSE ""

\* lines 630-636 of canTradePair: the token includes one of the common ones
IsCommonToken(token) ==
    \E common \in { << "0", "x", "2", ":", ":", "s", "u", "i", ":", ":", "S", "U", "I" >>, << ":", ":", "u", "s", "d", "c", ":", ":" >>, << ":", ":", "u", "s", "d", "t", ":", ":" >>, << ":", ":", "e", "t", "h", ":", ":" >>,
                    << ":", ":", "b", "t", "c", ":", ":" >> } : Includes(token, common)

\* how a call has ended: returned or threw, what (a kind of value or the class
\* of the error), for getPriceInfo whether the error was made by its catch
\* (lines 409-413), whether the estimator was reached, whether the amount was
\* numeric and how many times the estimator was invoked
Ended(op, kind, value, wrapped, reached, numeric, estimatorCalls) ==
    [op |-> op, kind |-> kind, value |-> value, wrapped |-> wrapped,
     reached |-> reached, numeric |-> numeric, estimatorCalls |-> estimatorCalls]
EndedEarly(op, kind, value) == Ended(op, kind, value, FALSE, FALSE, FALSE, 0)

\* the constructor, lines 128-140, and the environment
InitPrice ==
    /\ \E e \in EnvRetryAttempts :
         retryAttempts = ParseInt10(EnvOr(e, << "3" >>))
    /\ \E e \in {Unset, << "0" >>} :
         retryDelay = ParseInt10(EnvOr(e, << "1", "0", "0", "0" >>))
    /\ retryPc = "off"
    /\ attempt = 0
    /\ lastError = Undefined
    /\ retryResult = Undefined
    /\ waits = << >>
    /\ opFailures = 0
    /\ opThrowsError = FALSE
    /\ opCalls = 0
    /\ privateKey \in PrivateKeys
    /\ lendClient = "null"
    /\ lendKeypair = "null"
    /\ pricePc = "idle"
    /\ priceCall = NoCall
    /\ priceLog = << >>
    /\ OrchOff
    /\ TokenOff
    /\ QuoteOff
    /\ SwapOff
    /\ FlashOff

\* initialize(), lines 172-273: this.client is assigned at line 176, before
\* the key is looked at
InitializeRuns ==
    /\ lendClient' = "client"
    /\ lendKeypair' = IF InitializeError(privateKey) = "" THEN "keypair" ELSE lendKeypair

\* a call of initialize()
SuiLendInitialize ==
    /\ pricePc = "idle"
    /\ Len(priceLog) < MaxPriceCalls
    /\ InitializeRuns
    /\ priceLog' = Append(priceLog,
                          IF InitializeError(privateKey) = ""
                          THEN EndedEarly("initialize", "returned", "void")
                          ELSE EndedEarly("initialize", "threw", InitializeError(privateKey)))
    /\ UNCHANGED <<privateKey, pricePc, priceCall>>
    /\ UNCHANGED otherThanPrice

\* getPriceInfo(params), lines 334-395 and 455-466: up to the call of
\* withRetry (this.suilendClient is never assigned, so lines 380-392 are
\* skipped)
GetPriceInfo ==
    /\ pricePc = "idle"
    /\ Len(priceLog) < MaxPriceCalls
    /\ \E params \in PriceParams :
         IF lendClient = "null" /\ InitializeError(privateKey) # ""
         THEN /\ InitializeRuns
              /\ priceLog' = Append(priceLog, EndedEarly("getPriceInfo", "threw",
                                                         InitializeError(privateKey)))
              /\ UNCHANGED <<pricePc, priceCall, retryVars>>
         ELSE /\ IF lendClient = "null"
                 THEN InitializeRuns
                 ELSE UNCHANGED <<lendClient, lendKeypair>>
              /\ \E inputToken \in {ProcessedToken(FALSE, params.inputToken)},
                    outputToken \in {ProcessedToken(FALSE, params.outputToken)} :
                   IF ~ValidateTokenFormat(inputToken) \/ ~ValidateTokenFormat(outputToken)
                   THEN /\ priceLog' = Append(priceLog, EndedEarly("getPriceInfo", "threw",
                                                                   "TokenFormatError"))
                        /\ UNCHANGED <<pricePc, priceCall, retryVars>>
                   ELSE /\ pricePc' = "fallback"
                        /\ priceCall' = params
                        /\ retryPc' = "idle"
                        /\ opFailures' = IF ParseFloatIsNaN(params.amount) THEN Always ELSE 0
                        /\ opThrowsError' = TRUE
                        /\ opCalls' = 0
                        /\ UNCHANGED <<priceLog, retryAttempts, retryDelay, attempt,
                                       lastError, retryResult, waits>>
    /\ UNCHANGED privateKey
    /\ UNCHANGED otherThanPriceAndRetry

\* lines 395-414 and 585-601: withRetry has settled. The estimator's
\* PriceDiscoveryError is rethrown as it is; the Error of line 444 is wrapped
\* in a new PriceDiscoveryError; another error inside the estimator made it
\* return the 1:1 result
FallbackSettled ==
    /\ pricePc = "fallback"
    /\ retryPc \in {"returned", "thrown"}
    /\ priceLog' = Append(priceLog,
         IF retryPc = "returned"
         THEN Ended("getPriceInfo", "returned",
                    IF priceCall.breaks THEN "lastResort" ELSE "price",
                    FALSE, TRUE, ~ParseFloatIsNaN(priceCall.amount), opCalls)
         ELSE Ended("getPriceInfo", "threw", "PriceDiscoveryError",
                    retryResult = MaxAttemptsError, TRUE,
                    ~ParseFloatIsNaN(priceCall.amount), opCalls))
    /\ pricePc' = "idle"
    /\ priceCall' = NoCall
    /\ retryPc' = "off"
    /\ attempt' = 0
    /\ lastError' = Undefined
    /\ retryResult' = Undefined
    /\ waits' = << >>
    /\ opFailures' = 0
    /\ opThrowsError' = FALSE
    /\ opCalls' = 0
    /\ UNCHANGED <<retryAttempts, retryDelay, privateKey, lendClient, lendKeypair>>
    /\ UNCHANGED otherThanPriceAndRetry

\* canTradePair(inputToken, outputToken), lines 610-660
CanTradePair ==
    /\ pricePc = "idle"
    /\ Len(priceLog) < MaxPriceCalls
    /\ \E given \in [inputToken : PriceTokens, outputToken : PriceTokens] :
         IF lendClient = "null" /\ InitializeError(privateKey) # ""
         THEN /\ InitializeRuns
              /\ priceLog' = Append(priceLog, EndedEarly("canTradePair", "threw",
                                                         InitializeError(privateKey)))
         ELSE /\ IF lendClient = "null"
                 THEN InitializeRuns
                 ELSE UNCHANGED <<lendClient, lendKeypair>>
              /\ \E inputToken \in {ProcessedToken(FALSE, given.inputToken)},
                    outputToken \in {ProcessedToken(FALSE, given.outputToken)} :
                   priceLog' = Append(priceLog, EndedEarly("canTradePair", "returned",
                                        IF IsCommonToken(inputToken) /\ IsCommonToken(outputToken)
                                        THEN "true" ELSE "false"))
    /\ UNCHANGED <<privateKey, pricePc, priceCall>>
    /\ UNCHANGED otherThanPrice

NextPrice ==
    \/ SuiLendInitialize
    \/ GetPriceInfo
    \/ CanTradePair
    \/ WithRetry
    \/ OperationSettled
    \/ DelayElapsed
    \/ FallbackSettled

SpecPrice == InitPrice /\ [][NextPrice]_vars

-----------------------------------------------------------------------------
(* Claims about SuiLendExecutor, checked under SpecPrice *)

\* C25 (as claimed): after initialize() has failed because PRIVATE_KEY is
\* missing or in an unrecognized format, no later call of getPriceInfo or
\* canTradePair on that executor returns a result; each such call fails again.
C25_NoResultAfterFailedInitialize ==
    \A i \in 1..Len(priceLog) : \A j \in (i + 1)..Len(priceLog) :
        (/\ privateKey \in {"unset", "empty", "unrecognized"}
         /\ priceLog[i].op = "initialize"
         /\ priceLog[i].kind = "threw"
         /\ priceLog[j].op \in {"getPriceInfo", "canTradePair"})
            => priceLog[j].kind = "threw"

\* C30 (as claimed): a getPriceInfo call with valid tokens and a non-numeric
\* amount invokes the estimator exactly retryAttempts times and fails with the
\* estimator's PriceDiscoveryError, not wrapped again; with a numeric amount
\* the estimator is invoked exactly once, and an error inside it that is no
\* PriceDiscoveryError gives the 1:1 last-resort result.
C30_EstimatorUnderRetry ==
    \A i \in 1..Len(priceLog) :
        LET call == priceLog[i]
        IN  (call.op = "getPriceInfo" /\ call.reached)
                => IF call.numeric
                   THEN call.estimatorCalls = 1
                   ELSE /\ Number(call.estimatorCalls) = retryAttempts
                        /\ call.kind = "threw"
                        /\ call.value = "PriceDiscoveryError"
                        /\ ~call.wrapped

====
